---------------------------- MODULE Spec2Model ----------------------------
(***************************************************************************)
(* Model of the photography portfolio's metadata reconciliation pipeline   *)
(* (import-photos.js, sync-albums.js, cleanup-photos.js,                   *)
(* analyze-existing.js) and of the album page's display order (album.js).  *)
(*                                                                         *)
(* Strings that the code takes apart (album names, file names, photo ids)  *)
(* are sequences of one-character strings.  A path is kept as its list of  *)
(* directory segments plus its file name, so that String.replace of a      *)
(* "/segment/" pattern is the replacement of the first matching segment.   *)
(***************************************************************************)
EXTENDS Integers, Sequences, FiniteSets, TLC

(***************************************************************************)
(* Bounds of the model.                                                    *)
(***************************************************************************)
MaxNow    == 3      \* clock ticks the model follows after the start
MaxImages == 5      \* longest images list an import may build
MaxFiles  == 2      \* most source files in one album directory
MaxDirs   == 3      \* most album directories under albums/
MaxEdits  == 1      \* most source tree changes and reorder sessions of the operator
MaxPage   == 3      \* longest images list rendered by the album page

(***************************************************************************)
(* Program constants.                                                      *)
(***************************************************************************)
TsDigits  == 6      \* Date.now().toString().slice(-6)
PrefixLen == 3      \* albumName.substring(0, 3)
MinWord   == 2      \* isSimilar: word.length > 2

(***************************************************************************)
(* Characters and strings.                                                 *)
(***************************************************************************)
Lowers == <<"a","b","c","d","e","f","g","h","i","j","k","l","m",
            "n","o","p","q","r","s","t","u","v","w","x","y","z">>
Uppers == <<"A","B","C","D","E","F","G","H","I","J","K","L","M",
            "N","O","P","Q","R","S","T","U","V","W","X","Y","Z">>
DigitChars == <<"0","1","2","3","4","5","6","7","8","9">>

Range(s) == { s[i] : i \in DOMAIN s }

\* String.prototype.toLowerCase / toUpperCase on one character
ToLowerChar(c) ==
    IF \E i \in DOMAIN Uppers : Uppers[i] = c
    THEN Lowers[CHOOSE i \in DOMAIN Uppers : Uppers[i] = c]
    ELSE c

ToUpperChar(c) ==
    IF \E i \in DOMAIN Lowers : Lowers[i] = c
    THEN Uppers[CHOOSE i \in DOMAIN Lowers : Lowers[i] = c]
    ELSE c

ToLowerCase(s) == [i \in DOMAIN s |-> ToLowerChar(s[i])]

\* the character class [a-z0-9]
IsLowerAlnum(c) == c \in Range(Lowers) \cup Range(DigitChars)

\* s.replace(/[^a-z0-9]/g, '')
StripNonAlnum(s) == SelectSeq(s, IsLowerAlnum)

\* s.substring(0, n)
Substring0(s, n) == SubSeq(s, 1, IF Len(s) < n THEN Len(s) ELSE n)

\* s.split(/[-_]/): every '-' or '_' ends a word, empty words included
RECURSIVE SplitFrom(_, _, _)
SplitFrom(s, i, word) ==
    IF i > Len(s) THEN <<word>>
    ELSE IF s[i] \in {"-", "_"}
         THEN <<word>> \o SplitFrom(s, i + 1, <<>>)
         ELSE SplitFrom(s, i + 1, Append(word, s[i]))

SplitDashUnderscore(s) == SplitFrom(s, 1, <<>>)

\* s.split(/\s+|[-_]/): a run of blanks is one separator
RECURSIVE SplitWordsFrom(_, _, _)
SplitWordsFrom(s, i, word) ==
    IF i > Len(s) THEN <<word>>
    ELSE IF s[i] \in {"-", "_"}
         THEN <<word>> \o SplitWordsFrom(s, i + 1, <<>>)
    ELSE IF s[i] = " "
         THEN IF i > 1 /\ s[i - 1] = " "
              THEN SplitWordsFrom(s, i + 1, word)
              ELSE <<word>> \o SplitWordsFrom(s, i + 1, <<>>)
         ELSE SplitWordsFrom(s, i + 1, Append(word, s[i]))

SplitWords(s) == SplitWordsFrom(s, 1, <<>>)

\* word.charAt(0).toUpperCase() + word.slice(1)
Capitalize(word) ==
    IF word = <<>> THEN <<>>
    ELSE <<ToUpperChar(word[1])>> \o SubSeq(word, 2, Len(word))

\* words.join(' ')
RECURSIVE JoinSpace(_)
JoinSpace(words) ==
    IF words = <<>> THEN <<>>
    ELSE IF Len(words) = 1 THEN words[1]
    ELSE words[1] \o <<" ">> \o JoinSpace(Tail(words))

\* AlbumSyncer.generateTitle and the title of PhotoImporter.createNewAlbumEntry
generateTitle(albumName) ==
    JoinSpace([i \in DOMAIN SplitDashUnderscore(albumName) |->
                  Capitalize(SplitDashUnderscore(albumName)[i])])

\* n.toString() padded to TsDigits digits (the last six digits of the clock)
RECURSIVE DigitsOf(_, _)
DigitsOf(n, k) ==
    IF k = 0 THEN <<>>
    ELSE Append(DigitsOf(n \div 10, k - 1), DigitChars[(n % 10) + 1])

RECURSIVE Pow10(_)
Pow10(k) == IF k = 0 THEN 1 ELSE 10 * Pow10(k - 1)

\* Date.now().toString().slice(-6)
Timestamp(t) == DigitsOf(t % Pow10(TsDigits), TsDigits)

(***************************************************************************)
(* Names of the model's world.                                             *)
(***************************************************************************)
Sea   == <<"s","e","a">>
SeaNy == <<"s","e","a","-","n","y">>
Full  == <<"f","u","l","l">>
AlbumNames == {Sea, SeaNy, Full}
\* a directory name that shares the word "sea" with two album keys
SeaTrip == <<"s","e","a","-","t","r","i","p">>
DirNames == AlbumNames \cup {SeaTrip}

ASSETS     == <<"a","s","s","e","t","s">>
IMAGES     == <<"i","m","a","g","e","s">>
THUMBNAILS == <<"t","h","u","m","b","n","a","i","l","s">>
FULLDIR    == <<"f","u","l","l">>

JPG  == <<"j","p","g">>
PNG  == <<"p","n","g">>
RAW  == <<"r","a","w">>
WEBP == <<"w","e","b","p">>

\* image extensions accepted by findNewPhotos
ImageExts == { JPG, <<"j","p","e","g">>, PNG, WEBP, <<"t","i","f","f">>,
               RAW, <<"c","r","2">>, <<"n","e","f">>, <<"a","r","w">> }

\* camera raw formats: accepted by the import filter, not decodable by sharp
RawExts == { RAW, <<"c","r","2">>, <<"n","e","f">>, <<"a","r","w">> }

\* source files an operator may drop into an album directory
FileA1  == [stem |-> <<"A","1">>,     ext |-> JPG]
FileA_1 == [stem |-> <<"a","-","1">>, ext |-> PNG]
FileRaw == [stem |-> <<"r">>,         ext |-> RAW]
SourceFiles == {FileA1, FileA_1, FileRaw}

\* fs.readdir lists a directory in this order
FileOrder == <<FileA1, FileA_1, FileRaw>>

NoValue == <<>>                  \* an absent (undefined) field
Some(v) == <<v>>                 \* a present field
Has(opt) == opt # <<>>
Get(opt) == opt[1]


(***************************************************************************)
(* State.                                                                  *)
(***************************************************************************)
VARIABLES
    docExists,   \* data/albums.json exists
    doc,         \* the persisted document: album key -> Album
    fsDirs,      \* directories <<root, album>> under assets/images/<root>/
    fsFiles,     \* files <<root, album, file>> under assets/images/<root>/
    now,         \* Date.now(), counted in milliseconds from the start
    edits,       \* how many times the operator changed the source tree or
                 \* opened a reorder session
    last,        \* the operation that ran last and its outcome
    pageImages,  \* album page: album.images as fetched
    pageShown,   \* album page: the items appended to the grid, in order
    lightboxImages,  \* album page: the images initializeLightbox was given
    lightboxActive,  \* album page: the lightbox has class "active"
    currentIndex,    \* album page: initializeLightbox's currentIndex
    lightboxImg,     \* album page: the photo lightboxImg shows, if any
    rsPhase,     \* reorder session: "idle", "select" or "menu"
    rsLoaded,    \* reorder session: the document as loadAlbums read it
    rsAlbums,    \* reorder session: the document in memory
    rsAlbum,     \* reorder session: the selected album key, if any
    siteData,    \* browser: /data/albums.json as the pages fetch it
    galleryImages,  \* home gallery: what fetchImages returned last
    timelineItems,  \* albums timeline: the items loadTimeline appended
    albumShown,  \* album page: what loadAlbumData returned last
    currentFilter,   \* home gallery: currentFilter
    galleryPage,     \* home gallery: page
    loading,         \* home gallery: loading
    hasMoreImages,   \* home gallery: hasMoreImages
    galleryGrid,     \* home gallery: the ids of the items in galleryGrid
    pendingRender,   \* home gallery: the renderGallery call waiting for its
                     \* fetch, if any
    innerWidth,      \* masonry: window.innerWidth
    containerWidth,  \* masonry: container.offsetWidth
    paddingLeft,     \* masonry: the container's computed padding-left
    imgElems,        \* masonry: the img element of every item
    items,           \* masonry: the style the engine gave every item
    columnCount,     \* masonry: this.columnCount
    actualColumnWidth,  \* masonry: this.actualColumnWidth
    columns,         \* masonry: this.columns, the column heights
    layoutTimers,    \* masonry: pending setTimeout(() => this.layout(), 50)
    resizeTimeout,   \* masonry: this.resizeTimeout is pending
    passes,          \* masonry: layout passes the page has asked for
    containerHeight, \* masonry: container.style.height, if set
    maxConcurrent,   \* analyzer: the maxConcurrent option of analyzeDirectory
    analyzedFiles,   \* analyzer: imageFiles of analyzeDirectory
    nextFile,        \* analyzer: the index of the loop, counted from 1
    semaphore,       \* analyzer: semaphore, the promise in every slot
    running,         \* analyzer: the files whose analyzeImage has not settled
    results,         \* analyzer: results
    analyzerPhase,   \* analyzer: "idle", "loop", "waiting", "returned" or
                     \* "cleanup"
    reported         \* analyzer: results.length as main logged it, if it did

pipeVars == <<docExists, doc, fsDirs, fsFiles, now, edits, last>>
pageVars == <<pageImages, pageShown, lightboxImages, lightboxActive, currentIndex,
             lightboxImg>>
\* what the pipeline tools never touch, and what the album page never touches
sessVars == <<rsPhase, rsLoaded, rsAlbums, rsAlbum>>
galleryVars == <<currentFilter, galleryPage, loading, hasMoreImages, galleryGrid,
                 pendingRender>>
siteVars == <<siteData, galleryImages, timelineItems, albumShown, galleryVars>>
masonryVars == <<innerWidth, containerWidth, paddingLeft, imgElems, items, columnCount,
                 actualColumnWidth, columns, layoutTimers, resizeTimeout, passes,
                 containerHeight>>
browserVars == <<siteVars, masonryVars>>
analyzerVars == <<maxConcurrent, analyzedFiles, nextFile, semaphore, running, results,
                  analyzerPhase, reported>>
nonPipeVars == <<pageVars, sessVars, browserVars, analyzerVars>>
nonPageVars == <<pipeVars, sessVars, browserVars, analyzerVars>>
vars == <<docExists, doc, fsDirs, fsFiles, now, edits, last, pageVars,
          rsPhase, rsLoaded, rsAlbums, rsAlbum, siteVars, masonryVars, analyzerVars>>

\* the document import substitutes for a missing albums.json
\* (PhotoImporter.loadAlbumsData)
EmptyDoc == [k \in {} |-> {}]

\* paths written into the document by processPhoto
ThumbPath(albumName, outputName) ==
    [dirs |-> <<ASSETS, IMAGES, THUMBNAILS, albumName>>, file |-> outputName]
FullPath(albumName, outputName) ==
    [dirs |-> <<ASSETS, IMAGES, FULLDIR, albumName>>, file |-> outputName]

\* path.basename(p)
Basename(p) == p.file

\* dates: capture dates read from EXIF, and the day the tools run
\* analysisResult.technical.exif.capture.dateTime, when the file carries one
CaptureDate(f) == IF f = FileA1 THEN Some(1) ELSE NoValue
Today == 3

(***************************************************************************)
(* Photos that were written into albums.json before the import tool kept   *)
(* enhanced metadata (the entries analyze-existing.js is meant for).       *)
(***************************************************************************)
OldId(n) == <<"o","l","d">> \o <<DigitChars[n + 1]>>
OldFile(n) == [stem |-> OldId(n), ext |-> WEBP]

LegacyPhoto(n, acc, tech, meta) ==
    [ id            |-> OldId(n),
      thumbnail     |-> ThumbPath(Sea, OldFile(n)),
      full          |-> FullPath(Sea, OldFile(n)),
      date          |-> 2,
      order         |-> NoValue,
      accessibility |-> acc,
      technical     |-> tech,
      metadata      |-> meta ]

\* no enhanced field at all
Legacy1 == LegacyPhoto(1, NoValue, NoValue, NoValue)
\* hand-written alt text and the original file name, no technical data
Legacy2 == LegacyPhoto(2, Some("hand"), NoValue,
              Some([originalFilename |-> Some(FileA1), fileSize |-> "old",
                    enhanced |-> FALSE]))
\* old-style metadata (sizes only) without originalFilename
Legacy3 == LegacyPhoto(3, Some("hand"), Some("old"),
              Some([originalFilename |-> NoValue, fileSize |-> "old",
                    enhanced |-> FALSE]))

LegacyAlbum(imgs) ==
    [ title       |-> generateTitle(Sea),
      description |-> [template |-> "collection", album |-> Sea],
      cover       |-> [dirs |-> <<Sea>>, file |-> [stem |-> <<"c">>, ext |-> JPG]],
      images      |-> imgs ]

DerivedOf(albumName, photo) ==
    { <<"thumbnails", albumName, Basename(photo.thumbnail)>>,
      <<"full", albumName, Basename(photo.full)>> }

NoOp == [op |-> "none", album |-> <<>>, result |-> "none"]

\* the photo an earlier import of albums/full/A1.jpg left in the document
ImportedBefore ==
    [ id            |-> <<"f","u","l","a","1">> \o DigitsOf(0, TsDigits),
      thumbnail     |-> ThumbPath(Full, [stem |-> <<"f","u","l","a","1">> \o DigitsOf(0, TsDigits), ext |-> WEBP]),
      full          |-> FullPath(Full, [stem |-> <<"f","u","l","a","1">> \o DigitsOf(0, TsDigits), ext |-> WEBP]),
      date          |-> 1,
      order         |-> NoValue,
      accessibility |-> Some("gen"),
      technical     |-> Some("gen"),
      metadata      |-> Some([originalFilename |-> Some(FileA1), fileSize |-> "gen",
                              enhanced |-> FALSE]) ]

ImportedAlbum ==
    [ title       |-> <<"F","u","l","l">>,
      description |-> [template |-> "collection", album |-> Full],
      cover       |-> [dirs |-> <<Full>>, file |-> [stem |-> <<"c","o","v","e","r">>, ext |-> JPG]],
      images      |-> <<ImportedBefore>> ]

\* image-analyzer.js has not been started
NoAnalyzer ==
    /\ maxConcurrent = 3
    /\ analyzedFiles = <<>>
    /\ nextFile = 1
    /\ semaphore = <<>>
    /\ running = {}
    /\ results = <<>>
    /\ analyzerPhase = "idle"
    /\ reported = NoValue

\* no reorder session is open and no analysis runs
NoSession ==
    /\ rsPhase = "idle"
    /\ rsLoaded = EmptyDoc
    /\ rsAlbums = EmptyDoc
    /\ rsAlbum = NoValue
    /\ NoAnalyzer

\* the album page has not initialised its lightbox
NoLightbox ==
    /\ lightboxImages = <<>>
    /\ lightboxActive = FALSE
    /\ currentIndex = 0
    /\ lightboxImg = NoValue

\* the home gallery's script has not run past its declarations
NoGallery ==
    /\ currentFilter = "all"
    /\ galleryPage = 1
    /\ loading = FALSE
    /\ hasMoreImages = TRUE
    /\ galleryGrid = <<>>
    /\ pendingRender = NoValue

\* no page of the site has fetched the document
NoSite ==
    /\ siteData = EmptyDoc
    /\ galleryImages = [images |-> <<>>, hasMore |-> TRUE]
    /\ timelineItems = <<>>
    /\ albumShown = NoValue
    /\ NoGallery

\* no masonry engine has been constructed
NoMasonry ==
    /\ innerWidth = 0
    /\ containerWidth = 0
    /\ paddingLeft = 0
    /\ imgElems = <<>>
    /\ items = <<>>
    /\ columnCount = 0
    /\ actualColumnWidth = [num |-> 0, den |-> 1]
    /\ columns = <<>>
    /\ layoutTimers = 0
    /\ resizeTimeout = FALSE
    /\ passes = 0
    /\ containerHeight = NoValue

NoBrowser == NoSite /\ NoMasonry

\* The portfolio at the start: album "sea", written by hand before the tools
\* kept enhanced metadata, and album "full", imported at clock 0.
Init ==
    /\ doc = (Sea :> LegacyAlbum(<<Legacy1, Legacy2, Legacy3>>)) @@ (Full :> ImportedAlbum)
    /\ fsFiles = DerivedOf(Sea, Legacy1) \cup DerivedOf(Sea, Legacy2)
                     \cup DerivedOf(Sea, Legacy3) \cup DerivedOf(Full, ImportedBefore)
                     \cup {<<"albums", Sea, FileA1>>, <<"albums", Full, FileA1>>}
    /\ docExists = TRUE
    /\ fsDirs = { <<r, a>> : r \in {"albums", "thumbnails", "full"}, a \in {Sea, Full} }
    /\ now = 1
    /\ edits = 0
    /\ last = NoOp
    /\ pageImages = <<>>
    /\ pageShown = <<>>
    /\ NoLightbox
    /\ NoSession
    /\ NoBrowser

(***************************************************************************)
(* The operator's changes to the source tree assets/images/albums/.        *)
(***************************************************************************)
SourceDirs == { a \in DirNames : <<"albums", a>> \in fsDirs }
SourceFilesOf(a) == { f \in SourceFiles : <<"albums", a, f>> \in fsFiles }

\* every change of the tree is one edit of the operator
Edit ==
    /\ edits < MaxEdits
    /\ edits' = edits + 1
    /\ last' = [op |-> "edit", album |-> <<>>, result |-> "none"]

AddFile(a, f) ==
    /\ a \in SourceDirs
    /\ f \notin SourceFilesOf(a)
    /\ Cardinality(SourceFilesOf(a)) < MaxFiles
    /\ fsFiles' = fsFiles \cup {<<"albums", a, f>>}
    /\ Edit
    /\ UNCHANGED nonPipeVars
    /\ UNCHANGED <<docExists, doc, fsDirs, now>>

RemoveFile(a, f) ==
    /\ f \in SourceFilesOf(a)
    /\ fsFiles' = fsFiles \ {<<"albums", a, f>>}
    /\ Edit
    /\ UNCHANGED nonPipeVars
    /\ UNCHANGED <<docExists, doc, fsDirs, now>>

MkDir(a) ==
    /\ a \notin SourceDirs
    /\ Cardinality(SourceDirs) < MaxDirs
    /\ fsDirs' = fsDirs \cup {<<"albums", a>>}
    /\ Edit
    /\ UNCHANGED nonPipeVars
    /\ UNCHANGED <<docExists, doc, fsFiles, now>>

RmDir(a) ==
    /\ a \in SourceDirs
    /\ fsDirs' = fsDirs \ {<<"albums", a>>}
    /\ fsFiles' = fsFiles \ { <<"albums", a, f>> : f \in SourceFiles }
    /\ Edit
    /\ UNCHANGED nonPipeVars
    /\ UNCHANGED <<docExists, doc, now>>

RenameDir(a, b) ==
    /\ a \in SourceDirs
    /\ b \notin SourceDirs
    /\ fsDirs' = (fsDirs \ {<<"albums", a>>}) \cup {<<"albums", b>>}
    /\ fsFiles' = (fsFiles \ { <<"albums", a, f>> : f \in SourceFiles })
                     \cup { <<"albums", b, f>> : f \in SourceFilesOf(a) }
    /\ Edit
    /\ UNCHANGED nonPipeVars
    /\ UNCHANGED <<docExists, doc, now>>

(***************************************************************************)
(* Array.prototype.sort: a stable sort by a comparator.                    *)
(***************************************************************************)
\* the comparator of updateAlbumsJson: new Date(b.date) - new Date(a.date)
CompareDate(a, b) == b.date - a.date

\* a comparator that puts the photos without an order first
CompareOrderUnorderedFirst(a, b) ==
    IF Has(a.order) /\ Has(b.order) THEN Get(a.order) - Get(b.order)
    ELSE IF Has(a.order) THEN 1
    ELSE IF Has(b.order) THEN -1
    ELSE b.date - a.date

\* the comparator of renderAlbum
CompareOrder(a, b) ==
    IF Has(a.order) /\ Has(b.order) THEN Get(a.order) - Get(b.order)
    ELSE IF Has(a.order) THEN -1
    ELSE IF Has(b.order) THEN 1
    ELSE b.date - a.date

Compare(kind, a, b) ==
    IF kind = "date" THEN CompareDate(a, b) ELSE CompareOrder(a, b)

RECURSIVE InsertSorted(_, _, _)
InsertSorted(kind, sorted, x) ==
    IF sorted = <<>> THEN <<x>>
    ELSE LET e == sorted[Len(sorted)]
         IN  IF Compare(kind, e, x) > 0
             THEN Append(InsertSorted(kind, SubSeq(sorted, 1, Len(sorted) - 1), x), e)
             ELSE Append(sorted, x)

RECURSIVE StableSort(_, _)
StableSort(kind, s) ==
    IF s = <<>> THEN <<>>
    ELSE InsertSorted(kind, StableSort(kind, SubSeq(s, 1, Len(s) - 1)), s[Len(s)])

(***************************************************************************)
(* import-photos.js                                                        *)
(***************************************************************************)
\* fs.readdir(albumSourceDir)
ListDir(a) == SelectSeq(FileOrder, LAMBDA f : <<"albums", a, f>> \in fsFiles)

\* the /\.(jpg|jpeg|png|webp|tiff|raw|cr2|nef|arw)$/i filter
IsImageFile(f) == ToLowerCase(f.ext) \in ImageExts

generatePhotoId(filename, albumName, t) ==
    Substring0(albumName, PrefixLen)
        \o StripNonAlnum(ToLowerCase(filename.stem))
        \o Timestamp(t)

createNewAlbumEntry(albumName) ==
    [ title       |-> generateTitle(albumName),
      description |-> [template |-> "collection", album |-> albumName],
      cover       |-> [dirs |-> <<albumName>>, file |-> [stem |-> <<"c","o","v","e","r">>, ext |-> JPG]],
      images      |-> <<>> ]

\* the clock read by the i-th call of generatePhotoId in one run: d[j] is the
\* time that passes after the j-th call
RECURSIVE ClockAt(_, _, _)
ClockAt(t, d, i) == IF i <= 1 THEN t ELSE ClockAt(t, d, i - 1) + d[i - 1]

RECURSIVE findNewFrom(_, _, _, _, _, _)
findNewFrom(imageFiles, i, albumName, existingIds, t, d) ==
    IF i > Len(imageFiles) THEN <<>>
    ELSE LET photoId == generatePhotoId(imageFiles[i], albumName, ClockAt(t, d, i))
         IN  (IF photoId \notin existingIds
              THEN << [filename |-> imageFiles[i], id |-> photoId] >>
              ELSE <<>>)
             \o findNewFrom(imageFiles, i + 1, albumName, existingIds, t, d)

findNewPhotos(albumName, albumData, t, d) ==
    LET imageFiles  == SelectSeq(ListDir(albumName), IsImageFile)
        existingIds == { albumData.images[i].id : i \in DOMAIN albumData.images }
    IN  findNewFrom(imageFiles, 1, albumName, existingIds, t, d)

\* sharp(sourcePath) rejects what it cannot decode, and processPhoto throws
Decodable(f) == ToLowerCase(f.ext) \notin RawExts

OutputName(id) == [stem |-> id, ext |-> WEBP]

processPhoto(photo, albumName) ==
    [ id            |-> photo.id,
      thumbnail     |-> ThumbPath(albumName, OutputName(photo.id)),
      full          |-> FullPath(albumName, OutputName(photo.id)),
      date          |-> IF Has(CaptureDate(photo.filename))
                        THEN Get(CaptureDate(photo.filename)) ELSE Today,
      order         |-> NoValue,
      accessibility |-> Some("gen"),
      technical     |-> Some("gen"),
      metadata      |-> Some([originalFilename |-> Some(photo.filename),
                              fileSize |-> "gen",
                              enhanced |-> FALSE]) ]

updateAlbumsJson(albumName, albumsData, newPhotos) ==
    [albumsData EXCEPT ![albumName].images =
        StableSort("date", albumsData[albumName].images \o newPhotos)]

ToolOp(name, a, res) == [op |-> name, album |-> a, result |-> res]

Import(albumName, d) ==
    /\ albumName \in SourceDirs
    /\ UNCHANGED nonPipeVars
    /\ LET loaded     == IF docExists THEN doc ELSE EmptyDoc
           albumData  == IF albumName \in DOMAIN loaded
                         THEN loaded[albumName]
                         ELSE createNewAlbumEntry(albumName)
           albumsData == IF albumName \in DOMAIN loaded
                         THEN loaded
                         ELSE (albumName :> albumData) @@ loaded
           newPhotos  == findNewPhotos(albumName, albumData, now, d)
           tried      == SelectSeq(newPhotos, LAMBDA p : Decodable(p.filename))
           processedPhotos ==
               [i \in DOMAIN tried |-> processPhoto(tried[i], albumName)]
           elapsed    == ClockAt(now, d, Len(newPhotos) + 1) - now + 1
       IN  /\ now + elapsed <= MaxNow
           /\ Len(albumData.images) + Len(processedPhotos) <= MaxImages
           /\ now' = now + elapsed
           /\ UNCHANGED edits
           /\ IF newPhotos = <<>>
              THEN /\ UNCHANGED <<docExists, doc, fsDirs, fsFiles>>
                   /\ last' = ToolOp("import", albumName, "nonew")
              ELSE /\ fsDirs' = fsDirs \cup {<<"thumbnails", albumName>>,
                                             <<"full", albumName>>}
                   /\ fsFiles' = fsFiles \cup
                        UNION { DerivedOf(albumName, processedPhotos[i]) :
                                   i \in DOMAIN processedPhotos }
                   /\ IF processedPhotos = <<>>
                      THEN /\ UNCHANGED <<docExists, doc>>
                           /\ last' = ToolOp("import", albumName, "failed")
                      ELSE /\ docExists' = TRUE
                           /\ doc' = updateAlbumsJson(albumName, albumsData, processedPhotos)
                           /\ last' = ToolOp("import", albumName, IF Len(tried) = Len(newPhotos)
                                             THEN "saved" ELSE "partial")

(***************************************************************************)
(* cleanup-photos.js                                                       *)
(***************************************************************************)
albumDirectoryExists(albumName) == <<"albums", albumName>> \in fsDirs

\* a check that takes every recorded filename for an existing file
sourceImageRecorded(albumName, originalFilename) ==
    Has(originalFilename)

sourceImageExists(albumName, originalFilename) ==
    /\ Has(originalFilename)
    /\ <<"albums", albumName, Get(originalFilename)>> \in fsFiles

\* photo.metadata?.originalFilename
OriginalFilenameOf(photo) ==
    IF Has(photo.metadata) THEN Get(photo.metadata).originalFilename ELSE NoValue

\* a removal that empties the album's two derived directories
removeAllProcessedFiles(photo, albumName) ==
    { p \in fsFiles : p[1] \in {"thumbnails", "full"} /\ p[2] = albumName }

\* the paths removeProcessedFiles hands to fs.unlink
removeProcessedFiles(photo, albumName) ==
    { <<"thumbnails", albumName, Basename(photo.thumbnail)>>,
      <<"full", albumName, Basename(photo.full)>> }

\* the directories removeEmptyAlbumDirectories removes, given the files left
removeEmptyAlbumDirectories(albumName, dirsNow, filesNow) ==
    { dir \in {<<"thumbnails", albumName>>, <<"full", albumName>>} :
         /\ dir \in dirsNow
         /\ ~ \E p \in filesNow : p[1] = dir[1] /\ p[2] = dir[2] }

\* a test that keeps only the photos whose source file exists
IsValidPhotoStrict(photo, albumName) ==
    /\ Has(OriginalFilenameOf(photo))
    /\ <<"albums", albumName, Get(OriginalFilenameOf(photo))>> \in fsFiles

\* a photo stays in validPhotos
IsValidPhoto(photo, albumName) ==
    \/ ~ Has(OriginalFilenameOf(photo))
    \/ sourceImageExists(albumName, OriginalFilenameOf(photo))

\* a cleanupAlbum that unlinks and sweeps whatever dryRun says
cleanupAlbumUnguarded(albumName, albumData, dryRun, removeProcessed) ==
    IF <<"albums", albumName>> \notin fsDirs
    THEN [ album    |-> IF dryRun THEN Some(albumData) ELSE NoValue,
           unlinked |-> IF removeProcessed
                        THEN UNION { removeProcessedFiles(albumData.images[i], albumName) :
                                        i \in DOMAIN albumData.images }
                        ELSE {},
           sweep    |-> removeProcessed,
           orphanedPhotos |-> 0,
           orphanedAlbums |-> 1 ]
    ELSE LET validPhotos == SelectSeq(albumData.images,
                                LAMBDA photo : IsValidPhoto(photo, albumName))
             orphans == { i \in DOMAIN albumData.images :
                             ~ IsValidPhoto(albumData.images[i], albumName) }
         IN  [ album    |-> Some([albumData EXCEPT !.images = validPhotos]),
               unlinked |-> IF removeProcessed
                            THEN UNION { removeProcessedFiles(albumData.images[i], albumName) :
                                            i \in orphans }
                            ELSE {},
               sweep    |-> FALSE,
               orphanedPhotos |-> Cardinality(orphans),
               orphanedAlbums |-> 0 ]

\* result of cleanupAlbum: the album to keep (none for "remove the album"),
\* the files unlinked, whether the derived directories are swept, the counters
cleanupAlbum(albumName, albumData, dryRun, removeProcessed) ==
    IF ~ albumDirectoryExists(albumName)
    THEN [ album    |-> IF dryRun THEN Some(albumData) ELSE NoValue,
           unlinked |-> IF ~ dryRun /\ removeProcessed
                        THEN UNION { removeProcessedFiles(albumData.images[i], albumName) :
                                        i \in DOMAIN albumData.images }
                        ELSE {},
           sweep    |-> ~ dryRun /\ removeProcessed,
           orphanedPhotos |-> 0,
           orphanedAlbums |-> 1 ]
    ELSE LET validPhotos == SelectSeq(albumData.images,
                                LAMBDA photo : IsValidPhoto(photo, albumName))
             orphans == { i \in DOMAIN albumData.images :
                             ~ IsValidPhoto(albumData.images[i], albumName) }
         IN  [ album    |-> Some([albumData EXCEPT !.images = validPhotos]),
               unlinked |-> IF ~ dryRun /\ removeProcessed
                            THEN UNION { removeProcessedFiles(albumData.images[i], albumName) :
                                            i \in orphans }
                            ELSE {},
               sweep    |-> FALSE,
               orphanedPhotos |-> Cardinality(orphans),
               orphanedAlbums |-> 0 ]

RECURSIVE SumOver(_, _)
SumOver(S, f) ==
    IF S = {} THEN 0
    ELSE LET x == CHOOSE y \in S : TRUE IN f[x] + SumOver(S \ {x}, f)

Cleanup(dryRun, removeProcessed, albums) ==
    /\ UNCHANGED nonPipeVars
    /\ IF ~ docExists
       THEN /\ UNCHANGED <<docExists, doc, fsDirs, fsFiles, now, edits>>
            /\ last' = ToolOp("cleanup", <<>>, "error")
       ELSE LET albumsData == doc
                albumsToProcess == IF albums # {}
                                   THEN albums \cap DOMAIN albumsData
                                   ELSE DOMAIN albumsData
                res == [a \in albumsToProcess |->
                           cleanupAlbum(a, albumsData[a], dryRun, removeProcessed)]
                kept == { a \in albumsToProcess : Has(res[a].album) }
                updatedAlbumsData ==
                    [a \in kept \cup (DOMAIN albumsData \ albumsToProcess) |->
                        IF a \in kept THEN Get(res[a].album) ELSE albumsData[a]]
                filesLeft == fsFiles \ UNION { res[a].unlinked : a \in albumsToProcess }
                orphanedPhotos == SumOver(albumsToProcess, [a \in albumsToProcess |-> res[a].orphanedPhotos])
                orphanedAlbums == SumOver(albumsToProcess, [a \in albumsToProcess |-> res[a].orphanedAlbums])
            IN  IF albumsToProcess = {}
                THEN /\ UNCHANGED <<docExists, doc, fsDirs, fsFiles, now, edits>>
                     /\ last' = ToolOp("cleanup", <<>>, "noalbums")
                ELSE /\ fsFiles' = filesLeft
                     /\ fsDirs' = fsDirs \
                          UNION { IF res[a].sweep
                                  THEN removeEmptyAlbumDirectories(a, fsDirs, filesLeft)
                                  ELSE {} : a \in albumsToProcess }
                     /\ IF ~ dryRun /\ (orphanedPhotos > 0 \/ orphanedAlbums > 0)
                        THEN /\ doc' = updatedAlbumsData
                             /\ last' = ToolOp("cleanup", <<>>, "saved")
                        ELSE /\ doc' = doc
                             /\ last' = ToolOp("cleanup", <<>>, IF dryRun THEN "dry" ELSE "clean")
                     /\ UNCHANGED <<docExists, now, edits>>

(***************************************************************************)
(* sync-albums.js                                                          *)
(***************************************************************************)
\* fs.readdir lists the album directories in this order
AlbumOrder == <<Full, Sea, SeaNy, SeaTrip>>

getCurrentDirectories == SelectSeq(AlbumOrder, LAMBDA a : a \in SourceDirs)

Min(a, b) == IF a < b THEN a ELSE b

isSimilar(str1, str2) ==
    LET words1 == SplitWords(ToLowerCase(str1))
        words2 == SplitWords(ToLowerCase(str2))
        commonWords == SelectSeq(words1,
                          LAMBDA word : Len(word) > MinWord /\ word \in Range(words2))
    IN  2 * Len(commonWords) >= Min(Len(words1), Len(words2))

\* the directory findPossibleRename returns, or none
findPossibleRename(oldKey, currentDirs, jsonKeys) ==
    LET unmatchedDirs == SelectSeq(currentDirs, LAMBDA dir : dir \notin Range(jsonKeys))
        similar == SelectSeq(unmatchedDirs, LAMBDA dir : isSimilar(oldKey, dir))
    IN  IF Len(unmatchedDirs) = 1 /\ Len(currentDirs) = Len(jsonKeys)
        THEN Some(unmatchedDirs[1])
        ELSE IF similar # <<>> THEN Some(similar[1]) ELSE NoValue

Change(type, oldKey, newKey) == [type |-> type, oldKey |-> oldKey, newKey |-> newKey]

RECURSIVE detectMissing(_, _, _)
detectMissing(jsonKeys, currentDirs, i) ==
    IF i > Len(jsonKeys) THEN <<>>
    ELSE (IF jsonKeys[i] \notin Range(currentDirs)
          THEN LET possibleMatch == findPossibleRename(jsonKeys[i], currentDirs, jsonKeys)
               IN  IF Has(possibleMatch)
                   THEN << Change("rename", jsonKeys[i], Get(possibleMatch)) >>
                   ELSE << Change("missing_directory", jsonKeys[i], <<>>) >>
          ELSE <<>>)
         \o detectMissing(jsonKeys, currentDirs, i + 1)

detectChanges(jsonKeys, currentDirs) ==
    LET changes == detectMissing(jsonKeys, currentDirs, 1)
        isPartOfRename(dir) ==
            \E i \in DOMAIN changes :
                changes[i].type = "rename" /\ changes[i].newKey = dir
        newDirs == SelectSeq(currentDirs,
                      LAMBDA dir : dir \notin Range(jsonKeys) /\ ~ isPartOfRename(dir))
    IN  changes \o [i \in DOMAIN newDirs |-> Change("missing_json", <<>>, newDirs[i])]

\* p.replace(`/${oldKey}/`, `/${newKey}/`): the first directory segment equal
\* to oldKey that has a slash on both sides
ReplaceSegment(p, oldKey, newKey) ==
    LET hits == { i \in DOMAIN p.dirs : i > 1 /\ p.dirs[i] = oldKey }
    IN  IF hits = {} THEN p
        ELSE LET first == CHOOSE i \in hits : \A j \in hits : i <= j
             IN  [p EXCEPT !.dirs[first] = newKey]

IsSuffix(s, t) ==
    Len(s) <= Len(t) /\ SubSeq(t, Len(t) - Len(s) + 1, Len(t)) = s

\* p.replace(`${oldKey}/`, `${newKey}/`): the first place where oldKey is
\* followed by a slash, which is the end of a directory segment
ReplaceBeforeSlash(p, oldKey, newKey) ==
    LET hits == { i \in DOMAIN p.dirs : IsSuffix(oldKey, p.dirs[i]) }
    IN  IF hits = {} THEN p
        ELSE LET first == CHOOSE i \in hits : \A j \in hits : i <= j
                 seg == p.dirs[first]
             IN  [p EXCEPT !.dirs[first] =
                     SubSeq(seg, 1, Len(seg) - Len(oldKey)) \o newKey]

\* the album stored under newKey by the 'rename' case of applyChanges
renameAlbum(data, oldKey, newKey) ==
    [ data EXCEPT
        !.title  = generateTitle(newKey),
        !.images = [i \in DOMAIN data.images |->
                      [data.images[i] EXCEPT
                          !.thumbnail = ReplaceSegment(@, oldKey, newKey),
                          !.full      = ReplaceSegment(@, oldKey, newKey)]],
        !.cover  = ReplaceBeforeSlash(@, oldKey, newKey) ]

Without(f, k) == [x \in DOMAIN f \ {k} |-> f[x]]

RECURSIVE applyFrom(_, _, _, _)
applyFrom(updatedData, albumsData, changes, i) ==
    IF i > Len(changes) THEN updatedData
    ELSE IF changes[i].type = "rename"
         THEN applyFrom(
                 Without((changes[i].newKey :>
                             renameAlbum(albumsData[changes[i].oldKey],
                                         changes[i].oldKey, changes[i].newKey))
                         @@ updatedData,
                         changes[i].oldKey),
                 albumsData, changes, i + 1)
         ELSE applyFrom(updatedData, albumsData, changes, i + 1)

\* an applyChanges that also deletes the keys reported as missing_directory
applyChangesDropMissing(albumsData, changes) ==
    LET out == applyFrom(albumsData, albumsData, changes, 1)
        gone == { changes[i].oldKey : i \in { j \in DOMAIN changes :
                                                changes[j].type = "missing_directory" } }
    IN  [k \in DOMAIN out \ gone |-> out[k]]

applyChanges(albumsData, changes) == applyFrom(albumsData, albumsData, changes, 1)

\* the orders in which Object.keys may list a set of keys
KeyOrders(S) ==
    { s \in [1..Cardinality(S) -> S] : \A i, j \in DOMAIN s : i # j => s[i] # s[j] }

Sync(dryRun, jsonKeys) ==
    /\ UNCHANGED nonPipeVars
    /\ jsonKeys \in KeyOrders(DOMAIN doc)
    /\ IF ~ docExists
       THEN /\ doc' = doc
            /\ last' = ToolOp("sync", <<>>, "error")
       ELSE LET changes == detectChanges(jsonKeys, getCurrentDirectories)
                renamed == \E i \in DOMAIN changes : changes[i].type = "rename"
            IN  /\ IF changes # <<>> /\ ~ dryRun
                   THEN doc' = applyChanges(doc, changes)
                   ELSE doc' = doc
                /\ last' = ToolOp("sync", <<>>,
                                  IF changes = <<>> THEN "insync"
                                  ELSE IF dryRun THEN "dry"
                                  ELSE IF renamed THEN "rename" ELSE "report")
    /\ UNCHANGED <<docExists, fsDirs, fsFiles, now, edits>>

(***************************************************************************)
(* analyze-existing.js                                                     *)
(***************************************************************************)
hasEnhancedMetadata(photo) ==
    Has(photo.accessibility) /\ Has(photo.technical) /\ Has(photo.metadata)

\* findSourceImage finds the photo's source file
findSourceImage(photo, albumName) ==
    sourceImageExists(albumName, OriginalFilenameOf(photo))

\* extensions ImageAnalyzer.isValidImage accepts; analyzeImage throws on others
AnalyzerExts == ImageExts \cup { <<"t","i","f">> }
isValidImage(f) == ToLowerCase(f.ext) \in AnalyzerExts

\* did updatePhoto build an enhancedPhoto
IsEnhanced(photo, albumName) ==
    /\ ~ hasEnhancedMetadata(photo)
    /\ findSourceImage(photo, albumName)
    /\ isValidImage(Get(OriginalFilenameOf(photo)))

updatePhoto(photo, albumName) ==
    IF IsEnhanced(photo, albumName)
    THEN [ photo EXCEPT
             !.accessibility = Some("gen"),
             !.technical     = Some("gen"),
             !.metadata      = Some([Get(photo.metadata) EXCEPT
                                        !.fileSize = "gen", !.enhanced = TRUE]) ]
    ELSE photo

analyzeAlbum(albumName, albumData) ==
    [ albumData EXCEPT !.images =
        [i \in DOMAIN albumData.images |-> updatePhoto(albumData.images[i], albumName)] ]

Analyze(dryRun, albums) ==
    /\ UNCHANGED nonPipeVars
    /\ IF ~ docExists
       THEN /\ doc' = doc
            /\ last' = ToolOp("analyze", <<>>, "error")
       ELSE LET albumsData == doc
                targets == IF albums = {} THEN DOMAIN albumsData
                           ELSE albums \cap DOMAIN albumsData
                updatedAlbumsData ==
                    [a \in DOMAIN albumsData |->
                        IF a \in targets THEN analyzeAlbum(a, albumsData[a]) ELSE albumsData[a]]
                updated == \E a \in targets : \E i \in DOMAIN albumsData[a].images :
                               IsEnhanced(albumsData[a].images[i], a)
            IN  /\ doc' = IF ~ dryRun /\ updated THEN updatedAlbumsData ELSE doc
                /\ last' = ToolOp("analyze", <<>>, IF ~ updated THEN "none"
                                  ELSE IF dryRun THEN "dry" ELSE "saved")
    /\ UNCHANGED <<docExists, fsDirs, fsFiles, now, edits>>

(***************************************************************************)
(* The pipeline as a whole: the operator edits the source tree and runs    *)
(* the tools one at a time.                                                *)
(***************************************************************************)
AllKeyOrders == UNION { KeyOrders(S) : S \in SUBSET AlbumNames }
AlbumFilters == {{}} \cup { {a} : a \in AlbumNames }

Next ==
    \/ \E a \in AlbumNames, f \in SourceFiles : AddFile(a, f)
    \/ \E a \in AlbumNames, f \in SourceFiles : RemoveFile(a, f)
    \/ \E a \in AlbumNames : MkDir(a)
    \/ \E a \in AlbumNames : RmDir(a)
    \/ \E a, b \in AlbumNames : RenameDir(a, b)
    \/ \E a \in AlbumNames, d \in [1..MaxFiles -> 0..1] : Import(a, d)
    \/ \E dryRun, removeProcessed \in BOOLEAN, albums \in AlbumFilters :
           Cleanup(dryRun, removeProcessed, albums)
    \/ \E dryRun \in BOOLEAN, jsonKeys \in AllKeyOrders : Sync(dryRun, jsonKeys)
    \/ \E dryRun \in BOOLEAN, albums \in AlbumFilters : Analyze(dryRun, albums)

Spec == Init /\ [][Next]_vars

(***************************************************************************)
(* album.js: the album page renders album.images.                          *)
(***************************************************************************)
PageOrders == {NoValue} \cup { Some(n) : n \in 1..2 }
PagePhoto(i, order, date) == [id |-> i, order |-> order, date |-> date]

PageInputs ==
    UNION { { [i \in 1..n |-> PagePhoto(i, o[i], dt[i])] :
                o \in [1..n -> PageOrders], dt \in [1..n -> 1..2] } : n \in 0..MaxPage }

PageInit ==
    /\ pageImages \in PageInputs
    /\ pageShown = <<>>
    /\ NoLightbox
    /\ docExists = FALSE
    /\ doc = EmptyDoc
    /\ fsDirs = {}
    /\ fsFiles = {}
    /\ now = 0
    /\ edits = 0
    /\ last = NoOp
    /\ NoSession
    /\ NoBrowser

\* renderAlbum: sortedImages, appended to the grid in that order, and the
\* lightbox initialised with album.images
RenderAlbum ==
    /\ pageShown = <<>>
    /\ pageImages # <<>>
    /\ pageShown' = StableSort("order", pageImages)
    /\ lightboxImages' = pageImages
    /\ UNCHANGED <<pageImages, lightboxActive, currentIndex, lightboxImg>>
    /\ UNCHANGED nonPageVars

\* updateLightboxImage: the photo lightboxImg shows is images[currentIndex]
updateLightboxImage(images, index) == Some(images[index + 1].id)

\* the click listener of the gallery item at position index
ClickItem(index) ==
    /\ index < Len(pageShown)
    /\ currentIndex' = index
    /\ lightboxImg' = updateLightboxImage(lightboxImages, index)
    /\ lightboxActive' = TRUE
    /\ UNCHANGED <<pageImages, pageShown, lightboxImages>>
    /\ UNCHANGED nonPageVars

\* the next button and the ArrowRight key of the open lightbox
LightboxNext ==
    /\ lightboxActive
    /\ IF currentIndex < Len(lightboxImages) - 1
       THEN /\ currentIndex' = currentIndex + 1
            /\ lightboxImg' = updateLightboxImage(lightboxImages, currentIndex + 1)
       ELSE UNCHANGED <<currentIndex, lightboxImg>>
    /\ UNCHANGED <<pageImages, pageShown, lightboxImages, lightboxActive>>
    /\ UNCHANGED nonPageVars

\* the previous button and the ArrowLeft key of the open lightbox
LightboxPrev ==
    /\ lightboxActive
    /\ IF currentIndex > 0
       THEN /\ currentIndex' = currentIndex - 1
            /\ lightboxImg' = updateLightboxImage(lightboxImages, currentIndex - 1)
       ELSE UNCHANGED <<currentIndex, lightboxImg>>
    /\ UNCHANGED <<pageImages, pageShown, lightboxImages, lightboxActive>>
    /\ UNCHANGED nonPageVars

\* the close button and the Escape key of the open lightbox
LightboxClose ==
    /\ lightboxActive
    /\ lightboxActive' = FALSE
    /\ UNCHANGED <<pageImages, pageShown, lightboxImages, currentIndex, lightboxImg>>
    /\ UNCHANGED nonPageVars

PageNext ==
    \/ RenderAlbum
    \/ \E index \in 0..(MaxPage - 1) : ClickItem(index)
    \/ LightboxNext
    \/ LightboxPrev
    \/ LightboxClose

PageSpec == PageInit /\ [][PageNext]_vars

(***************************************************************************)
(* Properties of the pipeline.                                             *)
(***************************************************************************)
Photos(d, a) == { d[a].images[i] : i \in DOMAIN d[a].images }

DeltaChoices == [1..MaxFiles -> 0..1]

\* C1: running import for an album a second time, right after a run that
\* processed everything it found and with the source directory unchanged,
\* leaves the document as the first run left it (no photo is appended).
C1_ImportTwiceSame ==
    [][ \A a \in AlbumNames, d \in DeltaChoices :
          ( /\ last.op = "import" /\ last.album = a
            /\ last.result \in {"saved", "nonew"}
            /\ Import(a, d) )
          => doc' = doc ]_vars

\* C8: no two Photo entries of the document have the same id.
C8_UniqueIds ==
    \A a, b \in DOMAIN doc :
      \A i \in DOMAIN doc[a].images, j \in DOMAIN doc[b].images :
         (a # b \/ i # j) => doc[a].images[i].id # doc[b].images[j].id

\* a field that was present keeps its value
KeepsField(old, new) == Has(old) => new = old

\* C9: an import or analyze-existing run leaves every accessibility,
\* technical and metadata field that a photo already had as it was.
C9_EnhancedFieldsKept ==
    [][ last'.op \in {"import", "analyze"} =>
          \A a \in DOMAIN doc :
             /\ a \in DOMAIN doc'
             /\ \A p \in Photos(doc, a) :
                   \E q \in Photos(doc', a) :
                      /\ q.id = p.id
                      /\ KeepsField(p.accessibility, q.accessibility)
                      /\ KeepsField(p.technical, q.technical)
                      /\ KeepsField(p.metadata, q.metadata) ]_vars

CleanupTargets(albums) == IF albums = {} THEN DOMAIN doc ELSE albums \cap DOMAIN doc

\* C2 (as claimed): no cleanup run, in any mode and whatever the filesystem
\* holds, removes a photo that has no metadata.originalFilename.
C2_NoFilenameNeverRemoved ==
    [][ last'.op = "cleanup" =>
          \A a \in DOMAIN doc : \A p \in Photos(doc, a) :
             ~ Has(OriginalFilenameOf(p)) =>
                 a \in DOMAIN doc' /\ p \in Photos(doc', a) ]_vars

\* C2 (amended): a photo without metadata.originalFilename survives every
\* dry-run cleanup, and every executing cleanup while the source directory of
\* its album exists.
C2_NoFilenameKeptWhileDirExists ==
    [][ last'.op = "cleanup" =>
        \A dryRun, removeProcessed \in BOOLEAN, albums \in AlbumFilters :
          Cleanup(dryRun, removeProcessed, albums) =>
             \A a \in DOMAIN doc :
                (dryRun \/ <<"albums", a>> \in fsDirs) =>
                   \A p \in Photos(doc, a) :
                      ~ Has(OriginalFilenameOf(p)) =>
                          a \in DOMAIN doc' /\ p \in Photos(doc', a) ]_vars

\* an executing cleanup dropped the orphan Legacy2 and kept Legacy1, which has
\* no originalFilename
C2_Witness ==
    /\ last.op = "cleanup" /\ last.result = "saved"
    /\ <<"albums", Sea>> \in fsDirs
    /\ Sea \in DOMAIN doc
    /\ Legacy1 \in Photos(doc, Sea)
    /\ Legacy2 \notin Photos(doc, Sea)

SourceTree(dirs, files) ==
    << { d \in dirs : d[1] = "albums" }, { p \in files : p[1] = "albums" } >>

\* C3: a cleanup run creates nothing and leaves the source tree albums/ as
\* it was; every file it removes is the thumbnail or full file, under a
\* cleaned album's key, of a photo it dropped from the document, and every
\* directory it removes is an empty thumbnails/ or full/ directory of a
\* cleaned album.
C3_CleanupTouchesDerivedOnly ==
    [][ last'.op = "cleanup" =>
        \A dryRun, removeProcessed \in BOOLEAN, albums \in AlbumFilters :
          Cleanup(dryRun, removeProcessed, albums) =>
             /\ SourceTree(fsDirs', fsFiles') = SourceTree(fsDirs, fsFiles)
             /\ fsFiles' \subseteq fsFiles
             /\ fsDirs' \subseteq fsDirs
             /\ \A p \in fsFiles \ fsFiles' :
                   /\ p[1] \in {"thumbnails", "full"}
                   /\ p[2] \in CleanupTargets(albums)
                   /\ \E photo \in Photos(doc, p[2]) :
                         /\ p[3] \in {photo.thumbnail.file, photo.full.file}
                         /\ p[2] \in DOMAIN doc' => photo \notin Photos(doc', p[2])
             /\ \A dir \in fsDirs \ fsDirs' :
                   /\ dir[1] \in {"thumbnails", "full"}
                   /\ dir[2] \in CleanupTargets(albums)
                   /\ ~ \E p \in fsFiles' : p[1] = dir[1] /\ p[2] = dir[2] ]_vars

\* an executing cleanup removed album "sea" with its derived directories,
\* and the source tree still holds albums/full/A1.jpg
C3_Witness ==
    /\ last.op = "cleanup" /\ last.result = "saved"
    /\ Sea \notin DOMAIN doc
    /\ <<"thumbnails", Sea>> \notin fsDirs
    /\ <<"full", Sea>> \notin fsDirs
    /\ <<"albums", Full, FileA1>> \in fsFiles

SourceMissing(a, p) ==
    /\ Has(OriginalFilenameOf(p))
    /\ <<"albums", a, Get(OriginalFilenameOf(p))>> \notin fsFiles
SourcePresent(a, p) ==
    /\ Has(OriginalFilenameOf(p))
    /\ <<"albums", a, Get(OriginalFilenameOf(p))>> \in fsFiles

\* what C4 promises for album a, with or without the deletion of derived files
C4_Post(a, filesDeleted) ==
    /\ a \in DOMAIN doc'
    /\ \A p \in Photos(doc, a) :
          /\ SourceMissing(a, p) =>
                /\ p \notin Photos(doc', a)
                /\ filesDeleted =>
                      /\ <<"thumbnails", a, p.thumbnail.file>> \notin fsFiles'
                      /\ <<"full", a, p.full.file>> \notin fsFiles'
          /\ SourcePresent(a, p) => p \in Photos(doc', a)
    /\ doc'[a].images = SelectSeq(doc[a].images, LAMBDA p : p \in Photos(doc', a))

\* C4 (as claimed): every executing cleanup of an album whose source
\* directory exists removes the photos whose source file is gone, deletes
\* their thumbnail and full files, keeps the photos whose source file
\* exists, in their order, and persists the result.
C4_ExecutingCleanupRemovesOrphans ==
    [][ last'.op = "cleanup" =>
        \A removeProcessed \in BOOLEAN, albums \in AlbumFilters :
          Cleanup(FALSE, removeProcessed, albums) =>
             \A a \in CleanupTargets(albums) :
                <<"albums", a>> \in fsDirs => C4_Post(a, TRUE) ]_vars

\* C4 (amended): the same, with the derived files deleted only when the run
\* was not told to keep them (--keep-processed).
C4_ExecutingCleanupUnlessKept ==
    [][ last'.op = "cleanup" =>
        \A removeProcessed \in BOOLEAN, albums \in AlbumFilters :
          Cleanup(FALSE, removeProcessed, albums) =>
             \A a \in CleanupTargets(albums) :
                <<"albums", a>> \in fsDirs => C4_Post(a, removeProcessed) ]_vars

\* an executing cleanup dropped Legacy2 from between Legacy1 and Legacy3 and
\* deleted its derived files
C4_Witness ==
    /\ last.op = "cleanup" /\ last.result = "saved"
    /\ <<"albums", Sea>> \in fsDirs
    /\ Sea \in DOMAIN doc
    /\ doc[Sea].images = <<Legacy1, Legacy3>>
    /\ DerivedOf(Sea, Legacy2) \cap fsFiles = {}

\* the album segment of a derived path is its last directory
WithAlbumSegment(p, oldKey, newKey) ==
    [p EXCEPT !.dirs = [i \in DOMAIN p.dirs |->
        IF i = Len(p.dirs) /\ p.dirs[i] = oldKey THEN newKey ELSE p.dirs[i]]]

\* C5: when key A has no directory and exactly one directory B has no key,
\* with as many directories as keys, an executing sync stores album A under
\* key B with the title made from B and with the album segment A of every
\* thumbnail, full and cover path replaced by B; nothing else changes.
C5_RenameRewritesAlbum ==
    [][ last'.op = "sync" =>
        \A jsonKeys \in KeyOrders(DOMAIN doc) :
          Sync(FALSE, jsonKeys) =>
             \A A \in DOMAIN doc \ SourceDirs, B \in SourceDirs \ DOMAIN doc :
                ( /\ SourceDirs \ DOMAIN doc = {B}
                  /\ Cardinality(SourceDirs) = Cardinality(DOMAIN doc) )
                =>
                ( /\ DOMAIN doc' = (DOMAIN doc \ {A}) \cup {B}
                  /\ \A k \in DOMAIN doc \ {A} : doc'[k] = doc[k]
                  /\ doc'[B] =
                       [ doc[A] EXCEPT
                           !.title  = generateTitle(B),
                           !.cover  = WithAlbumSegment(@, A, B),
                           !.images = [i \in DOMAIN doc[A].images |->
                              [ doc[A].images[i] EXCEPT
                                  !.thumbnail = WithAlbumSegment(@, A, B),
                                  !.full      = WithAlbumSegment(@, A, B) ]] ] ) ]_vars

Same == /\ docExists' = docExists /\ doc' = doc
        /\ fsDirs' = fsDirs /\ fsFiles' = fsFiles

\* C6: a dry-run sync and a dry-run cleanup leave albums.json and every file
\* and directory as they were.
C6_DryRunChangesNothing ==
    [][ /\ last'.op = "cleanup" =>
              \A removeProcessed \in BOOLEAN, albums \in AlbumFilters :
                 Cleanup(TRUE, removeProcessed, albums) => Same
        /\ last'.op = "sync" =>
              \A jsonKeys \in KeyOrders(DOMAIN doc) :
                 Sync(TRUE, jsonKeys) => Same ]_vars

\* a dry-run cleanup has reported the orphan Legacy2 (its source A1.jpg is
\* gone): the photo and its derived files are still there
C6_Witness ==
    /\ last.op = "cleanup" /\ last.result = "dry"
    /\ <<"albums", Sea>> \in fsDirs
    /\ <<"albums", Sea, FileA1>> \notin fsFiles
    /\ Sea \in DOMAIN doc
    /\ Legacy2 \in Photos(doc, Sea)
    /\ DerivedOf(Sea, Legacy2) \subseteq fsFiles

\* key k has a rename candidate among the directories without a key
HasRenameCandidate(k) ==
    LET unmatched == SourceDirs \ DOMAIN doc
    IN  \/ Cardinality(unmatched) = 1 /\ Cardinality(SourceDirs) = Cardinality(DOMAIN doc)
        \/ \E dir \in unmatched : isSimilar(k, dir)

\* C7: a sync run leaves every album whose key has a directory unchanged,
\* leaves every album whose key has neither a directory nor a rename
\* candidate unchanged, and stores a new key only for a directory that a
\* missing key was renamed to.
C7_SyncChangesOnlyRenames ==
    [][ last'.op = "sync" =>
        \A dryRun \in BOOLEAN, jsonKeys \in KeyOrders(DOMAIN doc) :
          Sync(dryRun, jsonKeys) =>
             /\ \A k \in DOMAIN doc :
                   (k \in SourceDirs \/ ~ HasRenameCandidate(k)) =>
                       k \in DOMAIN doc' /\ doc'[k] = doc[k]
             /\ \A b \in DOMAIN doc' \ DOMAIN doc :
                   /\ b \in SourceDirs
                   /\ \E k \in DOMAIN doc \ SourceDirs :
                         /\ HasRenameCandidate(k)
                         /\ k \notin DOMAIN doc'
                         /\ Len(doc'[b].images) = Len(doc[k].images) ]_vars

\* an executing sync has reported a key without directory and without
\* rename candidate, and the album is still in the document
C7_Witness ==
    /\ last.op = "sync" /\ last.result = "report"
    /\ \E k \in DOMAIN doc : <<"albums", k>> \notin fsDirs

(***************************************************************************)
(* Properties of the album page.                                           *)
(***************************************************************************)
\* C10: the page shows the album's photos with every photo that has an
\* order before every photo that has none, the photos with an order by
\* ascending order, and the photos without one by descending date.
C10_OrderThenDate ==
    pageShown # <<>> =>
       /\ Len(pageShown) = Len(pageImages)
       /\ \A p \in Range(pageImages) : p \in Range(pageShown)
       /\ \A i, j \in DOMAIN pageShown :
             i < j =>
                /\ Has(pageShown[j].order) => Has(pageShown[i].order)
                /\ (Has(pageShown[i].order) /\ Has(pageShown[j].order))
                      => Get(pageShown[i].order) <= Get(pageShown[j].order)
                /\ (~ Has(pageShown[i].order) /\ ~ Has(pageShown[j].order))
                      => pageShown[i].date >= pageShown[j].date

\* Z (no order, newest date) is stored first, then Y (order 2) and X
\* (order 1); the page shows X, Y, Z
C10_Witness ==
    /\ pageImages = << PagePhoto(1, NoValue, 2), PagePhoto(2, Some(2), 1),
                       PagePhoto(3, Some(1), 1) >>
    /\ pageShown = << PagePhoto(3, Some(1), 1), PagePhoto(2, Some(2), 1),
                      PagePhoto(1, NoValue, 2) >>

(***************************************************************************)
(* reorder-photos.js: an interactive session that rearranges one album in  *)
(* memory and writes albums.json when the operator asks for it.            *)
(***************************************************************************)
\* a JavaScript number: an integer or NaN
Num(v) == [nan |-> FALSE, v |-> v]
NaN == [nan |-> TRUE, v |-> 0]

DigitVal(c) == CHOOSE n \in 0..9 : DigitChars[n + 1] = c

\* the digits at the front of s, as a number; NaN when there is none
RECURSIVE ParseDigits(_, _, _)
ParseDigits(s, i, acc) ==
    IF i > Len(s) \/ s[i] \notin Range(DigitChars)
    THEN (IF i = 1 THEN NaN ELSE Num(acc))
    ELSE ParseDigits(s, i + 1, 10 * acc + DigitVal(s[i]))

\* parseInt(answer)
ParseInt(s) ==
    IF s # <<>> /\ s[1] = "-"
    THEN LET n == ParseDigits(Tail(s), 1, 0)
         IN  IF n.nan THEN NaN ELSE Num(0 - n.v)
    ELSE ParseDigits(s, 1, 0)

\* parseInt(answer) - 1
IndexOf(answer) ==
    LET n == ParseInt(answer) IN IF n.nan THEN NaN ELSE Num(n.v - 1)

\* index < 0 || index >= length; both comparisons are false for NaN
OutOfRange(index, length) == ~ index.nan /\ (index.v < 0 \/ index.v >= length)

\* the integer splice() makes of its start argument
ToInteger(index) == IF index.nan THEN 0 ELSE index.v

\* what the operator may type at a prompt
Answers == { <<"0">>, <<"1">>, <<"2">>, <<"3">>, <<"x">> }

\* images.splice(i, 1) and images.splice(i, 0, x), with 0-based i
RemoveAt(s, i) == [k \in 1..(Len(s) - 1) |-> IF k <= i THEN s[k] ELSE s[k + 1]]
InsertAt(s, i, x) ==
    [k \in 1..(Len(s) + 1) |-> IF k <= i THEN s[k] ELSE IF k = i + 1 THEN x ELSE s[k - 1]]

\* images.forEach((photo, index) => { photo.order = index + 1; })
Renumber(images) == [i \in DOMAIN images |-> [images[i] EXCEPT !.order = Some(i)]]

setSequentialOrder(images) == Renumber(images)

clearAllOrder(images) == [i \in DOMAIN images |-> [images[i] EXCEPT !.order = NoValue]]

\* a move that leaves the order fields as they were
movePhotoKeepingNumbers(images, fromIndex, toIndex) ==
    LET from == IF fromIndex.nan THEN 0 ELSE fromIndex.v
        to == IF toIndex.nan THEN 0 ELSE toIndex.v
        rest == [k \in 1..(Len(images) - 1) |-> IF k <= from THEN images[k] ELSE images[k + 1]]
    IN  [k \in 1..Len(images) |->
            IF k <= to THEN rest[k] ELSE IF k = to + 1 THEN images[from + 1] ELSE rest[k - 1]]

\* the two splice calls of movePhotoToPosition, then the renumbering
movePhotoToPosition(images, fromIndex, toIndex) ==
    LET from == ToInteger(fromIndex)
        photo == images[from + 1]
    IN  Renumber(InsertAt(RemoveAt(images, from), ToInteger(toIndex), photo))

\* the destructuring swap of swapPhotos, then the renumbering
swapPhotos(images, firstIndex, secondIndex) ==
    Renumber([k \in DOMAIN images |->
                 IF k = firstIndex.v + 1 THEN images[secondIndex.v + 1]
                 ELSE IF k = secondIndex.v + 1 THEN images[firstIndex.v + 1]
                 ELSE images[k]])

\* a menu that asks for the save on either way out
shouldSaveAlways(choice) == choice \in {"5", "6"}

\* reorderMenu returns true for option 5 and false for option 6
shouldSave(choice) == choice = "5"

SessionAlbum == IF Has(rsAlbum) THEN Get(rsAlbum) ELSE <<>>

Ended(result) ==
    /\ rsPhase' = "idle"
    /\ last' = ToolOp("reorder", SessionAlbum, result)
    /\ UNCHANGED <<rsLoaded, rsAlbums, rsAlbum>>

InMenu == rsPhase = "menu"
MenuImages == rsAlbums[Get(rsAlbum)].images
StayInMenu(images, result) ==
    /\ rsAlbums' = [rsAlbums EXCEPT ![Get(rsAlbum)].images = images]
    /\ last' = ToolOp("reorder", SessionAlbum, result)
    /\ UNCHANGED <<rsPhase, rsLoaded, rsAlbum>>

SessionFrame == UNCHANGED <<docExists, fsDirs, fsFiles, now, edits, pageVars, browserVars,
                            analyzerVars>>

\* run: loadAlbums
ReorderStart ==
    /\ rsPhase = "idle"
    /\ edits < MaxEdits
    /\ edits' = edits + 1
    /\ UNCHANGED <<docExists, doc, fsDirs, fsFiles, now, pageVars, browserVars,
                   analyzerVars>>
    /\ rsAlbum' = NoValue
    /\ IF docExists
       THEN /\ rsPhase' = "select"
            /\ rsLoaded' = doc
            /\ rsAlbums' = doc
            /\ last' = ToolOp("reorder", <<>>, "loaded")
       ELSE /\ rsPhase' = "idle"
            /\ rsLoaded' = EmptyDoc
            /\ rsAlbums' = EmptyDoc
            /\ last' = ToolOp("reorder", <<>>, "error")

\* run: selectAlbum, then album.images.length
SelectAlbum(answer, albumNames) ==
    /\ rsPhase = "select"
    /\ albumNames \in KeyOrders(DOMAIN rsAlbums)
    /\ SessionFrame /\ UNCHANGED doc
    /\ LET index == IndexOf(answer)
       IN  IF index.nan \/ OutOfRange(index, Len(albumNames))
           THEN Ended("error")
           ELSE /\ rsPhase' = "menu"
                /\ rsAlbum' = Some(albumNames[index.v + 1])
                /\ last' = ToolOp("reorder", albumNames[index.v + 1], "selected")
                /\ UNCHANGED <<rsLoaded, rsAlbums>>

\* menu option 1
SetSequentialOrder ==
    /\ InMenu
    /\ SessionFrame /\ UNCHANGED doc
    /\ StayInMenu(setSequentialOrder(MenuImages), "sequential")

\* menu option 2
MovePhotoToPosition(fromAnswer, toAnswer) ==
    /\ InMenu
    /\ SessionFrame /\ UNCHANGED doc
    /\ LET fromIndex == IndexOf(fromAnswer)
           toIndex == IndexOf(toAnswer)
       IN  IF OutOfRange(fromIndex, Len(MenuImages)) \/ OutOfRange(toIndex, Len(MenuImages))
           THEN StayInMenu(MenuImages, "rejected")
           ELSE IF MenuImages = <<>>
                THEN Ended("error")
                ELSE StayInMenu(movePhotoToPosition(MenuImages, fromIndex, toIndex), "moved")

\* menu option 3
ClearAllOrder(confirm) ==
    /\ InMenu
    /\ SessionFrame /\ UNCHANGED doc
    /\ IF confirm
       THEN StayInMenu(clearAllOrder(MenuImages), "cleared")
       ELSE StayInMenu(MenuImages, "kept")

\* menu option 4; with exactly one NaN index an array element becomes
\* undefined and the renumbering throws
SwapPhotos(first, second) ==
    /\ InMenu
    /\ SessionFrame /\ UNCHANGED doc
    /\ LET firstIndex == IndexOf(first)
           secondIndex == IndexOf(second)
       IN  IF OutOfRange(firstIndex, Len(MenuImages)) \/ OutOfRange(secondIndex, Len(MenuImages))
           THEN StayInMenu(MenuImages, "rejected")
           ELSE IF firstIndex.nan /\ secondIndex.nan
                THEN StayInMenu(Renumber(MenuImages), "swapped")
                ELSE IF firstIndex.nan \/ secondIndex.nan
                     THEN Ended("error")
                     ELSE StayInMenu(swapPhotos(MenuImages, firstIndex, secondIndex), "swapped")

\* menu options 5 and 6, then the end of run
ExitMenu(choice) ==
    /\ InMenu
    /\ SessionFrame
    /\ doc' = IF shouldSave(choice) THEN rsAlbums ELSE doc
    /\ Ended(IF choice = "5" THEN "save-exit" ELSE "exit")

\* an album as import leaves it: three photos, newest first, none with an order
ArrangedPhoto(n, date) ==
    [LegacyPhoto(n, NoValue, NoValue, NoValue) EXCEPT !.date = date]
ArrangedAlbum ==
    LegacyAlbum(<<ArrangedPhoto(1, 3), ArrangedPhoto(2, 2), ArrangedPhoto(3, 1)>>)

\* albums.json holds the albums "sea" and "full", or does not exist yet;
\* albums/sea/ and albums/full/ each hold A1.jpg
ReorderInit ==
    /\ docExists \in BOOLEAN
    /\ doc = IF docExists
             THEN (Sea :> ArrangedAlbum) @@ (Full :> ImportedAlbum)
             ELSE EmptyDoc
    /\ fsFiles = UNION { DerivedOf(Sea, ArrangedAlbum.images[i]) : i \in 1..3 }
                     \cup DerivedOf(Full, ImportedBefore)
                     \cup {<<"albums", Sea, FileA1>>, <<"albums", Full, FileA1>>}
    /\ fsDirs = { <<r, a>> : r \in {"albums", "thumbnails", "full"}, a \in {Sea, Full} }
    /\ now = 1
    /\ edits = 0
    /\ last = NoOp
    /\ pageImages = <<>>
    /\ pageShown = <<>>
    /\ NoLightbox
    /\ NoSession
    /\ NoBrowser

\* the tools are run one at a time: none while a reorder session is open
ImportWhenIdle(albumName, d) == rsPhase = "idle" /\ Import(albumName, d)
SyncWhenIdle(dryRun, jsonKeys) == rsPhase = "idle" /\ Sync(dryRun, jsonKeys)
CleanupWhenIdle(dryRun, removeProcessed, albums) ==
    rsPhase = "idle" /\ Cleanup(dryRun, removeProcessed, albums)

MenuExits == {"5", "6"}

ReorderNext ==
    \/ ReorderStart
    \/ \E answer \in Answers, albumNames \in AllKeyOrders : SelectAlbum(answer, albumNames)
    \/ SetSequentialOrder
    \/ \E fromAnswer, toAnswer \in Answers : MovePhotoToPosition(fromAnswer, toAnswer)
    \/ \E confirm \in BOOLEAN : ClearAllOrder(confirm)
    \/ \E first, second \in Answers : SwapPhotos(first, second)
    \/ \E choice \in MenuExits : ExitMenu(choice)
    \/ \E a \in AlbumNames, d \in [1..MaxFiles -> 0..1] : ImportWhenIdle(a, d)
    \/ \E dryRun \in BOOLEAN, jsonKeys \in AllKeyOrders : SyncWhenIdle(dryRun, jsonKeys)
    \/ \E dryRun, removeProcessed \in BOOLEAN, albums \in AlbumFilters :
           CleanupWhenIdle(dryRun, removeProcessed, albums)

ReorderSpec == ReorderInit /\ [][ReorderNext]_vars

(***************************************************************************)
(* Properties of import and the reorder session.                           *)
(***************************************************************************)
\* the photos of a sequence follow their order fields where both have one,
\* and descending date where neither has
FollowsOrderThenDate(images) ==
    \A i, j \in DOMAIN images :
       i < j =>
          /\ (Has(images[i].order) /\ Has(images[j].order))
                => Get(images[i].order) <= Get(images[j].order)
          /\ (~ Has(images[i].order) /\ ~ Has(images[j].order))
                => images[i].date >= images[j].date

\* C11: the images an import persists for an album are in descending date,
\* except that photos with order fields stay in the sequence those fields
\* give: an import into an album arranged with the reorder tool does not
\* put its ordered photos back into date sequence.
C11_ImportKeepsArrangement ==
    [][ (last'.op = "import" /\ last'.result \in {"saved", "partial"}) =>
           FollowsOrderThenDate(doc'[last'.album].images) ]_vars

\* C12: every import run for an existing album directory whose key is not
\* in the document leaves the document with an entry under that key, titled
\* from the directory name, also when the directory holds nothing to import
\* or every photo fails to process.
C12_NewAlbumPersisted ==
    [][ (last'.op = "import" /\ last'.album \notin DOMAIN doc) =>
           /\ last'.album \in DOMAIN doc'
           /\ doc'[last'.album].title = createNewAlbumEntry(last'.album).title ]_vars

\* C13: a reorder session writes albums.json only on 'Save and exit': while
\* a session is open, and after one that ended with 'Exit without saving'
\* or with an error, the persisted document is the one the session loaded.
C13_WrittenOnlyOnSaveAndExit ==
    ( \/ rsPhase # "idle"
      \/ (last.op = "reorder" /\ last.result \in {"exit", "error"}) )
    => doc = rsLoaded

\* a session that rearranged an album in memory ended with 'Exit without
\* saving'
C13_Witness ==
    /\ last.op = "reorder" /\ last.result = "exit"
    /\ rsAlbums # rsLoaded
    /\ doc = rsLoaded

\* the photos of a sequence without their order fields
Unordered(images) == [i \in DOMAIN images |-> [images[i] EXCEPT !.order = NoValue]]
Occurrences(s, x) == Cardinality({ i \in DOMAIN s : s[i] = x })
SamePhotos(old, new) ==
    /\ Len(old) = Len(new)
    /\ \A i \in DOMAIN old :
          Occurrences(Unordered(old), Unordered(old)[i])
             = Occurrences(Unordered(new), Unordered(old)[i])
\* s without its k-th element
AllBut(s, k) == [i \in 1..(Len(s) - 1) |-> IF i < k THEN s[i] ELSE s[i + 1]]
\* the answer is one of the numbers 1..n
ValidNumber(answer, n) == ~ ParseInt(answer).nan /\ ParseInt(answer).v \in 1..n

\* C14: after a set-sequential, move or swap that was carried out, every
\* photo's order is its position in images and images holds the photos it
\* held before; move(from, to) has the chosen photo at position to and the
\* others in their former sequence; swap has exchanged the two chosen
\* photos and nothing else.
C14_RenumberedAfterReorder ==
    [][ (last'.op = "reorder" /\ last'.result \in {"sequential", "moved", "swapped"}) =>
          LET old == Unordered(MenuImages)
              stored == rsAlbums'[Get(rsAlbum)].images
              new == Unordered(stored)
              n == Len(old)
          IN  /\ \A i \in DOMAIN stored : stored[i].order = Some(i)
              /\ SamePhotos(old, new)
              /\ \A f, t \in Answers :
                    ( /\ ValidNumber(f, n) /\ ValidNumber(t, n)
                      /\ MovePhotoToPosition(f, t) )
                    => /\ new[ParseInt(t).v] = old[ParseInt(f).v]
                       /\ AllBut(new, ParseInt(t).v) = AllBut(old, ParseInt(f).v)
              /\ \A a, b \in Answers :
                    ( /\ ValidNumber(a, n) /\ ValidNumber(b, n)
                      /\ SwapPhotos(a, b) )
                    => /\ new[ParseInt(a).v] = old[ParseInt(b).v]
                       /\ new[ParseInt(b).v] = old[ParseInt(a).v]
                       /\ \A k \in DOMAIN old :
                             k \notin {ParseInt(a).v, ParseInt(b).v} => new[k] = old[k]
        ]_vars

\* photo 1 of album "sea" has been moved to position 3
C14_Witness ==
    /\ rsPhase = "menu"
    /\ last.op = "reorder" /\ last.result = "moved"
    /\ rsAlbum = Some(Sea)
    /\ [i \in 1..3 |-> rsAlbums[Sea].images[i].id] = <<OldId(2), OldId(3), OldId(1)>>
    /\ [i \in 1..3 |-> rsAlbums[Sea].images[i].order] = <<Some(1), Some(2), Some(3)>>

\* C15: a move or swap given a photo number or position that is outside
\* 1..N or is no number leaves images and every order field as they were,
\* and the session goes on at the menu.
C15_InvalidNumberChangesNothing ==
    [][ (last'.op = "reorder" /\ InMenu) =>
          \A a, b \in Answers :
             ( /\ ~ ValidNumber(a, Len(MenuImages)) \/ ~ ValidNumber(b, Len(MenuImages))
               /\ MovePhotoToPosition(a, b) \/ SwapPhotos(a, b) )
             => rsAlbums' = rsAlbums /\ rsPhase' = "menu" ]_vars

\* C16: import, sync, cleanup and reorder, run while albums.json does not
\* exist, take the document to be empty and go on; none ends with an error
\* exit.
C16_MissingDocumentIsEmpty ==
    [][ (~ docExists /\ last'.op \in {"import", "sync", "cleanup", "reorder"})
           => last'.result # "error" ]_vars

(***************************************************************************)
(* The pages that read /data/albums.json: the home gallery (gallery.js),   *)
(* the albums timeline (timeline.js) and the album page (album.js).        *)
(* The fetched document is the sequence of its entries, in key order.      *)
(***************************************************************************)
imagesPerPage == 20

\* JavaScript truthiness of an optional boolean field
Truthy(opt) == Has(opt) /\ Get(opt)

SitePhoto(key, n, date, tags) == [id |-> <<key, n>>, date |-> date, tags |-> tags]

SiteAlbum(key, isPrivate, date, images) ==
    [key |-> key, title |-> key, isPrivate |-> isPrivate, date |-> date, images |-> images]

SiteKeys == {"sea", "example", "dsi-memories"}

\* the albums a key can stand for in the fetched document
SiteAlbums(key) ==
    { SiteAlbum(key, isPrivate, date, images) :
        isPrivate \in {NoValue, Some(FALSE), Some(TRUE)},
        date \in {NoValue, Some(2)},
        images \in { <<>>,
                     <<SitePhoto(key, 1, 3, Some({"nature"}))>>,
                     <<SitePhoto(key, 1, 1, Some({"nature"})), SitePhoto(key, 2, 2, NoValue)>> } }

SiteDocs ==
    { <<a>> : a \in UNION { SiteAlbums(k) : k \in SiteKeys } }
    \cup { <<a, b>> : a \in SiteAlbums("sea"),
                      b \in SiteAlbums("example") \cup SiteAlbums("dsi-memories") }
    \cup { <<a, b>> : a \in SiteAlbums("dsi-memories"), b \in SiteAlbums("sea") }

\* fetchImages: the images of the albums that are not private, each with its
\* album's title
RECURSIVE FlattenPublic(_, _)
FlattenPublic(data, i) ==
    IF i > Len(data) THEN <<>>
    ELSE LET album == data[i]
             rest == FlattenPublic(data, i + 1)
         IN  IF Truthy(album.isPrivate) THEN rest
             ELSE [k \in 1..Len(album.images) |->
                      [id |-> album.images[k].id, date |-> album.images[k].date,
                       tags |-> album.images[k].tags, album |-> album.title]] \o rest

\* images.slice(start, start + imagesPerPage)
Slice(s, start, end) ==
    [k \in 1..(Min(end, Len(s)) - Min(start, Len(s))) |-> s[Min(start, Len(s)) + k]]

fetchImages(data, filter, page) ==
    LET all == FlattenPublic(data, 1)
        tagged == IF filter # "all"
                  THEN SelectSeq(all, LAMBDA img : Has(img.tags) /\ filter \in Get(img.tags))
                  ELSE all
        images == StableSort("date", tagged)
        start == (page - 1) * imagesPerPage
    IN  [images |-> Slice(images, start, start + imagesPerPage),
         hasMore |-> start + imagesPerPage < Len(images)]

\* loadTimeline: the date an album is shown under
RECURSIVE LatestDate(_, _)
LatestDate(images, i) ==
    IF i = 0 THEN 0
    ELSE LET latest == LatestDate(images, i - 1)
         IN  IF images[i].date > latest THEN images[i].date ELSE latest

displayDate(album) ==
    IF Has(album.date) THEN Get(album.date) ELSE LatestDate(album.images, Len(album.images))

TimelineItem(album) ==
    [key |-> album.key, title |-> album.title, date |-> displayDate(album),
     imageCount |-> Len(album.images), isDsi |-> album.key = "dsi-memories"]

\* the comparator of loadTimeline
CompareTimeline(a, b) ==
    IF a.isDsi THEN 1 ELSE IF b.isDsi THEN -1 ELSE b.date - a.date

RECURSIVE InsertTimeline(_, _)
InsertTimeline(sorted, x) ==
    IF sorted = <<>> THEN <<x>>
    ELSE LET e == sorted[Len(sorted)]
         IN  IF CompareTimeline(e, x) > 0
             THEN Append(InsertTimeline(SubSeq(sorted, 1, Len(sorted) - 1), x), e)
             ELSE Append(sorted, x)

RECURSIVE SortTimeline(_)
SortTimeline(s) ==
    IF s = <<>> THEN <<>>
    ELSE InsertTimeline(SortTimeline(SubSeq(s, 1, Len(s) - 1)), s[Len(s)])

\* loadTimeline: Object.entries(data).filter(([key, album]) => key !== 'example')
timelineEntries(data) ==
    SelectSeq(data, LAMBDA album : album.key # "example")

loadTimeline(data) ==
    LET entries == timelineEntries(data)
    IN  SortTimeline([k \in 1..Len(entries) |-> TimelineItem(entries[k])])

\* loadAlbumData: data[albumId], if there is one
loadAlbumData(data, albumId) ==
    LET found == SelectSeq(data, LAMBDA album : album.key = albumId)
    IN  IF found = <<>> THEN NoValue ELSE Some(found[1])

SiteFrame == UNCHANGED <<siteData, galleryVars, pipeVars, pageVars, sessVars, masonryVars,
                         analyzerVars>>

\* the home gallery asks for a page of a filter
FetchImages(filter, page) ==
    /\ siteData # EmptyDoc
    /\ galleryImages' = fetchImages(siteData, filter, page)
    /\ UNCHANGED <<timelineItems, albumShown>>
    /\ SiteFrame

\* a page with the timeline component finishes loading
LoadTimeline ==
    /\ siteData # EmptyDoc
    /\ timelineItems' = loadTimeline(siteData)
    /\ UNCHANGED <<galleryImages, albumShown>>
    /\ SiteFrame

\* album.html?id=<albumId> is opened
LoadAlbumData(albumId) ==
    /\ siteData # EmptyDoc
    /\ albumShown' = Some([albumId |-> albumId, album |-> loadAlbumData(siteData, albumId)])
    /\ UNCHANGED <<galleryImages, timelineItems>>
    /\ SiteFrame

NoPipeline ==
    /\ docExists = FALSE
    /\ doc = EmptyDoc
    /\ fsDirs = {}
    /\ fsFiles = {}
    /\ now = 0
    /\ edits = 0
    /\ last = NoOp
    /\ pageImages = <<>>
    /\ pageShown = <<>>
    /\ NoLightbox
    /\ NoSession

SiteInit ==
    /\ siteData \in SiteDocs
    /\ galleryImages = [images |-> <<>>, hasMore |-> TRUE]
    /\ timelineItems = <<>>
    /\ albumShown = NoValue
    /\ NoGallery
    /\ NoPipeline
    /\ NoMasonry

SiteFilters == {"all", "nature"}
SitePages == 1..2
AlbumIds == SiteKeys \cup {"city"}

SiteNext ==
    \/ \E filter \in SiteFilters, page \in SitePages : FetchImages(filter, page)
    \/ LoadTimeline
    \/ \E albumId \in AlbumIds : LoadAlbumData(albumId)

SiteSpec == SiteInit /\ [][SiteNext]_vars

(***************************************************************************)
(* C17                                                                     *)
(***************************************************************************)
PrivateAlbums == { i \in 1..Len(siteData) : Truthy(siteData[i].isPrivate) }

\* C17: no album with isPrivate = true, and no photo of such an album,
\* appears in the home gallery's image list (whatever the filter and the
\* page) or in the albums timeline, while the album page, asked for that
\* album by its key, still gets it.
C17_PrivateOnlyByKey ==
    \A i \in PrivateAlbums :
        /\ \A k \in 1..Len(galleryImages.images) :
               \A j \in 1..Len(siteData[i].images) :
                   galleryImages.images[k].id # siteData[i].images[j].id
        /\ \A k \in 1..Len(timelineItems) : timelineItems[k].key # siteData[i].key
        /\ (Has(albumShown) /\ Get(albumShown).albumId = siteData[i].key)
               => Get(albumShown).album = Some(siteData[i])

(***************************************************************************)
(* MasonryLayout (masonry.js).  Lengths in pixels are JavaScript numbers;  *)
(* they are kept as exact fractions num/den with den > 0, in lowest terms. *)
(***************************************************************************)
MaxItems == 2    \* most items in the grid
MaxPasses == 2   \* most layout passes the page and the resize handler ask for

columnWidth == 300
gutter == 16
wideBreakpoint == 769
minHeight == 150
maxHeight == 600
defaultHeight == 250

Abs(n) == IF n < 0 THEN 0 - n ELSE n

RECURSIVE GCD(_, _)
GCD(a, b) == IF b = 0 THEN a ELSE GCD(b, a % b)

Frac(n, d) ==
    LET g == GCD(Abs(n), d)
    IN  [num |-> n \div g, den |-> d \div g]
FracInt(k) == [num |-> k, den |-> 1]
FracAdd(a, b) == Frac(a.num * b.den + b.num * a.den, a.den * b.den)
FracTimes(a, n, d) == Frac(a.num * n, a.den * d)
FracLess(a, b) == a.num * b.den < b.num * a.den
FracMax(a, b) == IF FracLess(a, b) THEN b ELSE a
FracMin(a, b) == IF FracLess(b, a) THEN b ELSE a

Max(a, b) == IF a > b THEN a ELSE b

\* calculateColumns
availableWidth(offsetWidth, padding) == offsetWidth - padding * 2

\* a gutter counted after every column, the last one included
totalGutterWidthPerColumn(count) == count * gutter

totalGutterWidth(count) == (count - 1) * gutter

calculateColumns(offsetWidth, padding) ==
    LET available == availableWidth(offsetWidth, padding)
        count == Max(1, available \div (columnWidth + gutter))
    IN  [columnCount |-> count,
         actualColumnWidth |-> Frac(available - totalGutterWidth(count), count),
         columns |-> [c \in 1..count |-> FracInt(0)]]

\* An item is a block that fills the container until the engine gives it a
\* width; its img has width 100% and, until the engine styles it, height auto.
itemOffsetWidth(item, available) ==
    IF Has(item.width) THEN Get(item.width) ELSE FracInt(Max(0, available))

imgOffsetHeight(img, width) ==
    IF Has(img.height) THEN Get(img.height)
    ELSE IF img.naturalWidth > 0
         THEN FracTimes(width, img.naturalHeight, img.naturalWidth)
         ELSE FracInt(0)

\* positionItem: the landscape test
isLandscape(img, width) ==
    \/ img.naturalWidth > img.naturalHeight
    \/ img.complete /\ FracLess(imgOffsetHeight(img, width), width)

columnsSpanned(img, width, count, viewport) ==
    IF count >= 2 /\ viewport >= wideBreakpoint /\ isLandscape(img, width)
    THEN Min(2, count)
    ELSE 1

itemWidth(span, columnW) ==
    IF span = 1 THEN columnW
    ELSE FracAdd(FracTimes(columnW, span, 1), FracInt(gutter * (span - 1)))

\* Math.max(...this.columns.slice(i, i + span)), i counted from 1
RECURSIVE MaxInSpan(_, _, _)
MaxInSpan(cols, i, span) ==
    IF span = 1 THEN cols[i]
    ELSE FracMax(cols[i], MaxInSpan(cols, i + 1, span - 1))

\* the first start index among 1..i with the lowest maximum over its span
RECURSIVE bestPosition(_, _, _)
bestPosition(cols, span, i) ==
    IF i = 1 THEN 1
    ELSE LET best == bestPosition(cols, span, i - 1)
         IN  IF FracLess(MaxInSpan(cols, i, span), MaxInSpan(cols, best, span))
             THEN i ELSE best

\* a height that is bounded below only
constrainedHeightNoMax(calculatedHeight) ==
    FracMax(FracInt(minHeight), calculatedHeight)

constrainedHeight(calculatedHeight) ==
    FracMax(FracInt(minHeight), FracMin(FracInt(maxHeight), calculatedHeight))

\* itemWidth * (img.naturalHeight / img.naturalWidth), constrained
measuredHeight(width, img) ==
    constrainedHeight(FracTimes(width, img.naturalHeight, img.naturalWidth))

measured(img) == img.complete /\ img.naturalWidth > 0

\* every item starts in column 0
startColumnZero(cols, span, count) == 1

\* shortestColumnIndex, counted from 1: the shortest column for one column,
\* the best of the start indexes 0..columnCount - columnsSpanned for more
startColumn(cols, span, count) == bestPosition(cols, span, count - span + 1)

\* an update of the first spanned column only
updateFirstColumnHeight(cols, columnIndex, span, itemHeight) ==
    [cols EXCEPT ![columnIndex] =
        FracAdd(FracAdd(MaxInSpan(cols, columnIndex, span), itemHeight), FracInt(gutter))]

\* updateColumnHeight, columnIndex counted from 1
updateColumnHeight(cols, columnIndex, span, itemHeight) ==
    LET currentMaxInSpan == MaxInSpan(cols, columnIndex, span)
        newHeight == FracAdd(FracAdd(currentMaxInSpan, itemHeight), FracInt(gutter))
    IN  [c \in 1..Len(cols) |->
            IF c >= columnIndex /\ c < columnIndex + span THEN newHeight ELSE cols[c]]

\* positionItem and updateColumnHeight for one item; an item is as tall as
\* its img.  The load and error listeners of an img that is not complete are
\* kept as the item widths their closures hold.  An item also keeps its
\* start column (shortestColumnIndex), the column heights it was placed
\* against and the offsetHeight updateColumnHeight read.
positionItem(img, item, cols, count, columnW, viewport, available) ==
    LET span == columnsSpanned(img, itemOffsetWidth(item, available), count, viewport)
        width == itemWidth(span, columnW)
        index == startColumn(cols, span, count)
        y == MaxInSpan(cols, index, span)
        height == IF measured(img) THEN measuredHeight(width, img)
                  ELSE FracInt(defaultHeight)
    IN  [item |-> [span |-> span,
                   column |-> index - 1,
                   before |-> cols,
                   offsetHeight |-> height,
                   left |-> FracTimes(FracAdd(columnW, FracInt(gutter)), index - 1, 1),
                   top |-> y,
                   width |-> Some(width)],
         img |-> [img EXCEPT !.height = Some(height),
                             !.listeners = IF img.complete THEN @ ELSE Append(@, width)],
         columns |-> updateColumnHeight(cols, index, span, height)]

\* layout: items.forEach((item, index) => this.positionItem(item, index))
RECURSIVE positionItems(_, _, _)
positionItems(st, i, env) ==
    IF i > Len(st.items) THEN st
    ELSE LET r == positionItem(st.imgs[i], st.items[i], st.columns, env.columnCount,
                               env.actualColumnWidth, env.viewport, env.available)
         IN  positionItems([imgs |-> [st.imgs EXCEPT ![i] = r.img],
                            items |-> [st.items EXCEPT ![i] = r.item],
                            columns |-> r.columns], i + 1, env)

\* the height of column 0
firstColumn(cols) == cols[1]

\* Math.max(...this.columns)
tallestColumn(cols) == MaxInSpan(cols, 1, Len(cols))

layout(elems, its, offsetWidth, padding, viewport) ==
    LET cc == calculateColumns(offsetWidth, padding)
        st == positionItems([imgs |-> elems, items |-> its, columns |-> cc.columns], 1,
                            [columnCount |-> cc.columnCount,
                             actualColumnWidth |-> cc.actualColumnWidth,
                             viewport |-> viewport,
                             available |-> availableWidth(offsetWidth, padding)])
    IN  [columnCount |-> cc.columnCount, actualColumnWidth |-> cc.actualColumnWidth,
         columns |-> st.columns, imgs |-> st.imgs, items |-> st.items,
         height |-> tallestColumn(st.columns)]

MasonryFrame == UNCHANGED <<pipeVars, pageVars, sessVars, siteVars, analyzerVars>>

\* one call of layout() in the current window
LayoutPass ==
    LET r == layout(imgElems, items, containerWidth, paddingLeft, innerWidth)
    IN  /\ columnCount' = r.columnCount
        /\ actualColumnWidth' = r.actualColumnWidth
        /\ columns' = r.columns
        /\ imgElems' = r.imgs
        /\ items' = r.items
        /\ containerHeight' = Some(r.height)
        /\ UNCHANGED <<innerWidth, containerWidth, paddingLeft>>
        /\ MasonryFrame

\* gallery.js: the page calls masonry.layout() after it rendered the items
PageLayout ==
    /\ imgElems # <<>>
    /\ passes < MaxPasses
    /\ passes' = passes + 1
    /\ LayoutPass
    /\ UNCHANGED <<layoutTimers, resizeTimeout>>

\* a timer that stays armed after it fired, as one set by setInterval
afterInterval(timers) == timers

\* a timer set by setTimeout is gone once it fired
afterTimeout(timers) == timers - 1

\* a setTimeout(() => this.layout(), 50) of a load or error listener fires
TimerLayout ==
    /\ layoutTimers > 0
    /\ layoutTimers' = afterTimeout(layoutTimers)
    /\ LayoutPass
    /\ UNCHANGED <<resizeTimeout, passes>>

\* bindEvents: the window is resized, the debounce timer is set again
Resize(window) ==
    /\ imgElems # <<>>
    /\ passes < MaxPasses
    /\ <<innerWidth, containerWidth, paddingLeft>> # window
    /\ passes' = passes + 1
    /\ innerWidth' = window[1]
    /\ containerWidth' = window[2]
    /\ paddingLeft' = window[3]
    /\ resizeTimeout' = TRUE
    /\ UNCHANGED <<imgElems, items, columnCount, actualColumnWidth, columns, layoutTimers,
                   containerHeight>>
    /\ MasonryFrame

\* bindEvents: the debounce timer fires
ResizeLayout ==
    /\ resizeTimeout
    /\ resizeTimeout' = FALSE
    /\ LayoutPass
    /\ UNCHANGED <<layoutTimers, passes>>

ImageFrame ==
    /\ UNCHANGED <<innerWidth, containerWidth, paddingLeft, items, columnCount,
                   actualColumnWidth, columns, resizeTimeout, passes, containerHeight>>
    /\ MasonryFrame

\* the browser has read the dimensions of an image it is still loading
ImageAvailable(i) ==
    /\ i \in 1..Len(imgElems)
    /\ ~ imgElems[i].complete
    /\ imgElems[i].src.ok
    /\ imgElems[i].naturalWidth = 0
    /\ imgElems' = [imgElems EXCEPT ![i].naturalWidth = imgElems[i].src.w,
                                    ![i].naturalHeight = imgElems[i].src.h]
    /\ UNCHANGED layoutTimers
    /\ ImageFrame

\* the load event: every handleImageLoad registered for the img runs once
ImageLoad(i) ==
    /\ i \in 1..Len(imgElems)
    /\ ~ imgElems[i].complete
    /\ imgElems[i].src.ok
    /\ LET img == [imgElems[i] EXCEPT !.complete = TRUE,
                                      !.naturalWidth = imgElems[i].src.w,
                                      !.naturalHeight = imgElems[i].src.h]
           n == Len(img.listeners)
       IN  /\ imgElems' = [imgElems EXCEPT ![i] =
                  [img EXCEPT !.height = IF n = 0 THEN @
                                         ELSE Some(measuredHeight(img.listeners[n], img)),
                              !.listeners = <<>>]]
           /\ layoutTimers' = layoutTimers + n
    /\ ImageFrame

\* the error event: every error listener registered for the img runs once
ImageError(i) ==
    /\ i \in 1..Len(imgElems)
    /\ ~ imgElems[i].complete
    /\ ~ imgElems[i].src.ok
    /\ LET n == Len(imgElems[i].listeners)
       IN  /\ imgElems' = [imgElems EXCEPT ![i] =
                  [@ EXCEPT !.complete = TRUE,
                            !.height = IF n = 0 THEN @ ELSE Some(FracInt(defaultHeight)),
                            !.listeners = <<>>]]
           /\ layoutTimers' = layoutTimers + n
    /\ ImageFrame

\* the files the items point at: landscape, portrait, very wide, very tall,
\* and one that cannot be decoded
ImageSources ==
    { [ok |-> TRUE, w |-> 3, h |-> 2], [ok |-> TRUE, w |-> 2, h |-> 3],
      [ok |-> TRUE, w |-> 10, h |-> 1], [ok |-> TRUE, w |-> 1, h |-> 10],
      [ok |-> FALSE, w |-> 0, h |-> 0] }

PendingImg(src) ==
    [src |-> src, complete |-> FALSE, naturalWidth |-> 0, naturalHeight |-> 0,
     height |-> NoValue, listeners |-> <<>>]

UnplacedItem ==
    [span |-> 0, column |-> 0, before |-> <<>>, offsetHeight |-> FracInt(0),
     left |-> FracInt(0), top |-> FracInt(0),
     width |-> NoValue]

\* <<window.innerWidth, container.offsetWidth, padding-left>>
Windows ==
    { <<320, 0, 0>>, <<320, 300, 16>>, <<768, 700, 16>>, <<769, 700, 16>>, <<1280, 1000, 0>> }

\* new MasonryLayout(galleryGrid, ...) on a grid whose items were just created
MasonryInit ==
    /\ \E n \in 0..MaxItems :
           /\ imgElems \in [1..n -> { PendingImg(src) : src \in ImageSources }]
           /\ items = [i \in 1..n |-> UnplacedItem]
    /\ \E window \in Windows :
           /\ innerWidth = window[1]
           /\ containerWidth = window[2]
           /\ paddingLeft = window[3]
    /\ columnCount = calculateColumns(containerWidth, paddingLeft).columnCount
    /\ actualColumnWidth = calculateColumns(containerWidth, paddingLeft).actualColumnWidth
    /\ columns = calculateColumns(containerWidth, paddingLeft).columns
    /\ layoutTimers = 0
    /\ resizeTimeout = FALSE
    /\ passes = 0
    /\ containerHeight = NoValue
    /\ NoPipeline
    /\ NoSite

ItemIndexes == 1..MaxItems

MasonryNext ==
    \/ PageLayout
    \/ TimerLayout
    \/ \E window \in Windows : Resize(window)
    \/ ResizeLayout
    \/ \E i \in ItemIndexes : ImageAvailable(i)
    \/ \E i \in ItemIndexes : ImageLoad(i)
    \/ \E i \in ItemIndexes : ImageError(i)

MasonrySpec == MasonryInit /\ [][MasonryNext]_vars

(***************************************************************************)
(* C18                                                                     *)
(***************************************************************************)
\* C18: in every layout pass an item spans 2 columns if and only if its
\* image has naturalWidth > naturalHeight, the engine has at least 2 columns
\* and the viewport is at least 769px wide; every other item spans exactly 1.
C18_SpanTwoIffLandscapeOnWide ==
    [][LayoutPass =>
          \A i \in 1..Len(items') :
              items'[i].span =
                  IF /\ imgElems[i].naturalWidth > imgElems[i].naturalHeight
                     /\ columnCount' >= 2
                     /\ innerWidth >= wideBreakpoint
                  THEN 2 ELSE 1]_vars

(***************************************************************************)
(* C19                                                                     *)
(***************************************************************************)
\* count is max(1, floor(available / (columnWidth + gutter))), and count
\* columns of width columnW with count - 1 gutters between them are exactly
\* as wide as the available width
FillsWidth(count, columnW, offsetWidth, padding) ==
    LET available == offsetWidth - 2 * padding
    IN  /\ \E k \in -1..4 :
               /\ k * (columnWidth + gutter) <= available
               /\ available < (k + 1) * (columnWidth + gutter)
               /\ count = IF k < 1 THEN 1 ELSE k
        /\ FracAdd(FracTimes(columnW, count, 1), FracInt((count - 1) * gutter))
               = FracInt(available)
        /\ (available = 1000) => (count = 3)

\* C19: for every available container width, zero and widths smaller than
\* one column included, the engine computes columnCount = max(1,
\* floor(availableWidth / (columnTargetWidth + gutter))) and an
\* actualColumnWidth with columnCount * actualColumnWidth + (columnCount - 1)
\* * gutter = availableWidth; width 1000, target 300 and gutter 16 give 3
\* columns.  It holds after construction and after every layout pass.
C19_ColumnsFillWidth ==
    /\ FillsWidth(columnCount, actualColumnWidth, containerWidth, paddingLeft)
    /\ [][LayoutPass =>
             FillsWidth(columnCount', actualColumnWidth', containerWidth, paddingLeft)]_vars

\* a layout pass has run in a container 1000px wide: 3 columns of 968/3 px
C19_Witness ==
    /\ containerWidth - 2 * paddingLeft = 1000
    /\ columnCount = 3
    /\ actualColumnWidth = Frac(968, 3)
    /\ Len(items) > 0
    /\ items[1].span > 0
    /\ items[1].width = Some(actualColumnWidth)

(***************************************************************************)
(* C20                                                                     *)
(***************************************************************************)
\* h is raw brought into [150, 600]
ClampedTo(h, raw) ==
    IF FracLess(raw, FracInt(150)) THEN h = FracInt(150)
    ELSE IF FracLess(FracInt(600), raw) THEN h = FracInt(600)
    ELSE h = raw

\* the heights the engine has assigned: width * naturalHeight / naturalWidth
\* brought into [150, 600] for the images known(img) holds of, 250 for the
\* others; after a layout pass every image has one
HeightsFollow(known(_)) ==
    /\ constrainedHeight(FracInt(1000)) = FracInt(600)
    /\ constrainedHeight(FracInt(50)) = FracInt(150)
    /\ \A i \in 1..Len(imgElems) :
           LET img == imgElems[i]
           IN  /\ items[i].span > 0 => Has(img.height)
               /\ Has(img.height) =>
                      IF known(img)
                      THEN /\ Has(items[i].width)
                           /\ ClampedTo(Get(img.height),
                                        FracTimes(Get(items[i].width),
                                                  img.naturalHeight, img.naturalWidth))
                           /\ ~ FracLess(Get(img.height), FracInt(150))
                           /\ ~ FracLess(FracInt(600), Get(img.height))
                      ELSE Get(img.height) = FracInt(250)

DimensionsKnown(img) == img.naturalWidth > 0

\* C20: whenever an image's natural dimensions are known, the height
\* assigned to it is its item width times naturalHeight/naturalWidth brought
\* into [150, 600] (a raw 1000 becomes 600, a raw 50 becomes 150); every
\* other image has the default 250.
C20_KnownHeightClamped == HeightsFollow(DimensionsKnown)

\* C20, for the images that have finished loading: whenever an image is
\* complete with a positive natural width, the height assigned to it is its
\* item width times naturalHeight/naturalWidth brought into [150, 600]; an
\* image that is still loading, its dimensions already readable or not, and
\* an image that failed have the default 250.
C20_LoadedHeightClamped == HeightsFollow(measured)

\* a layout pass has placed a loaded image ten times as tall as wide, at 600px
C20_Witness ==
    \E i \in 1..Len(imgElems) :
        /\ measured(imgElems[i])
        /\ items[i].span = 1
        /\ imgElems[i].naturalHeight = 10 * imgElems[i].naturalWidth
        /\ FracLess(FracInt(600), FracTimes(Get(items[i].width), 10, 1))
        /\ imgElems[i].height = Some(FracInt(600))

(***************************************************************************)
(* sync-albums.js on a document with the albums "sea" and "sea-ny", under  *)
(* any set of album directories.                                           *)
(***************************************************************************)
SyncInit ==
    /\ docExists = TRUE
    /\ doc = (Sea :> LegacyAlbum(<<Legacy1>>)) @@ (SeaNy :> LegacyAlbum(<<Legacy2, Legacy3>>))
    /\ \E dirs \in SUBSET DirNames :
           fsDirs = { <<"albums", a>> : a \in dirs }
    /\ fsFiles = {}
    /\ now = 1
    /\ edits = 0
    /\ last = NoOp
    /\ pageImages = <<>>
    /\ pageShown = <<>>
    /\ NoLightbox
    /\ NoSession
    /\ NoBrowser

SyncKeyOrders == UNION { KeyOrders(S) : S \in SUBSET DirNames }

SyncNext ==
    \/ \E a \in DirNames : MkDir(a)
    \/ \E a \in DirNames : RmDir(a)
    \/ \E a, b \in DirNames : RenameDir(a, b)
    \/ \E dryRun \in BOOLEAN, jsonKeys \in SyncKeyOrders : Sync(dryRun, jsonKeys)

SyncSpec == SyncInit /\ [][SyncNext]_vars

(***************************************************************************)
(* C21                                                                     *)
(***************************************************************************)
ImageIds(album) == [i \in DOMAIN album.images |-> album.images[i].id]

\* C21: a sync run never loses album data: no two keys without a directory
\* are classified as renames to the same directory, the document has as
\* many albums after the run as before, and every album's images list is
\* still present under exactly one key.
C21_SyncLosesNoAlbum ==
    [][ last'.op = "sync" =>
        \A dryRun \in BOOLEAN, jsonKeys \in KeyOrders(DOMAIN doc) :
          Sync(dryRun, jsonKeys) =>
             LET changes == detectChanges(jsonKeys, getCurrentDirectories)
             IN  /\ \A i, j \in DOMAIN changes :
                       (/\ i # j
                        /\ changes[i].type = "rename"
                        /\ changes[j].type = "rename")
                           => changes[i].newKey # changes[j].newKey
                 /\ Cardinality(DOMAIN doc') = Cardinality(DOMAIN doc)
                 /\ \A k \in DOMAIN doc :
                       Cardinality({ n \in DOMAIN doc' :
                                       ImageIds(doc'[n]) = ImageIds(doc[k]) }) = 1 ]_vars

(***************************************************************************)
(* C22                                                                     *)
(***************************************************************************)
Placed == { i \in 1..Len(items) : items[i].span > 0 }

\* the greatest of the heights cols[i], ..., cols[i + span - 1]
SpanHeight(cols, i, span) ==
    CHOOSE h \in { cols[j] : j \in i..(i + span - 1) } :
        \A j \in i..(i + span - 1) : ~ FracLess(h, cols[j])

\* C22: in a layout pass a span-1 item is placed in the column with the
\* smallest current height, the lowest index winning ties; a span-2 item is
\* placed at the start index i in [0, columnCount - 2] that minimizes the
\* maximum height of the columns i and i+1, the lowest i winning ties.
C22_PlacedAtLowestStart ==
    \A k \in Placed :
        LET cols == items[k].before
            span == items[k].span
            at == items[k].column + 1
            starts == 1..(Len(cols) - span + 1)
        IN  /\ at \in starts
            /\ \A j \in starts :
                   ~ FracLess(SpanHeight(cols, j, span), SpanHeight(cols, at, span))
            /\ \A j \in starts :
                   j < at => FracLess(SpanHeight(cols, at, span), SpanHeight(cols, j, span))

\* a layout pass has placed a two-column item at start index 1 of three
\* columns, behind a one-column item in column 0
C22_Witness ==
    \E k \in Placed :
        /\ items[k].span = 2
        /\ items[k].column = 1
        /\ Len(items[k].before) = 3
        /\ FracLess(FracInt(0), items[k].before[1])
        /\ items[k].before[2] = FracInt(0)

(***************************************************************************)
(* C23                                                                     *)
(***************************************************************************)
\* the column heights right after item k was placed
ColumnsAfter(k) == IF k < Len(items) THEN items[k + 1].before ELSE columns

\* C23: placing an item at start column i with span s sets its y to the
\* maximum height of the columns i..i+s-1 as they were before, sets each of
\* those s columns to y + itemHeight + gutter, and leaves the height of
\* every other column unchanged.
C23_PlacementUpdatesSpanOnly ==
    \A k \in Placed :
        LET cols == items[k].before
            span == items[k].span
            at == items[k].column + 1
            after == ColumnsAfter(k)
        IN  /\ items[k].top = SpanHeight(cols, at, span)
            /\ Len(after) = Len(cols)
            /\ \A c \in 1..Len(cols) :
                   IF c \in at..(at + span - 1)
                   THEN after[c] = FracAdd(FracAdd(items[k].top, items[k].offsetHeight),
                                           FracInt(16))
                   ELSE after[c] = cols[c]

\* a two-column item has been placed on two columns of different heights
C23_Witness ==
    \E k \in Placed :
        /\ items[k].span = 2
        /\ items[k].before[items[k].column + 1] # items[k].before[items[k].column + 2]
        /\ FracLess(FracInt(0), items[k].top)

(***************************************************************************)
(* C24                                                                     *)
(***************************************************************************)
SpanOf(k) == (items[k].column + 1)..(items[k].column + items[k].span)

Bottom(k) == FracAdd(items[k].top, items[k].offsetHeight)

\* C24: within one layout pass no two placed items overlap: of two items
\* whose column spans intersect, the later one's y is at least the earlier
\* one's y plus its height plus the gutter; column heights never decrease
\* during the pass; the container height set at the end is the maximum
\* column height and at least the bottom edge of every item.
C24_NoOverlapInPass ==
    /\ \A j, k \in Placed :
           (j < k /\ SpanOf(j) \cap SpanOf(k) # {})
               => ~ FracLess(items[k].top, FracAdd(Bottom(j), FracInt(16)))
    /\ \A k \in Placed :
           \A c \in 1..Len(items[k].before) :
               /\ ~ FracLess(ColumnsAfter(k)[c], items[k].before[c])
               /\ ~ FracLess(items[k].before[c], FracInt(0))
    /\ Has(containerHeight) =>
           /\ \E c \in 1..Len(columns) : Get(containerHeight) = columns[c]
           /\ \A c \in 1..Len(columns) : ~ FracLess(Get(containerHeight), columns[c])
           /\ \A k \in Placed : ~ FracLess(Get(containerHeight), Bottom(k))

\* a layout pass has stacked two items in one column and placed them in
\* columns of different heights
C24_Witness ==
    /\ Has(containerHeight)
    /\ \E j, k \in Placed :
           /\ j < k
           /\ SpanOf(j) \cap SpanOf(k) # {}
           /\ FracLess(Bottom(j), items[k].top)
           /\ Get(containerHeight) = FracAdd(Bottom(k), FracInt(16))
    /\ \E c \in 1..Len(columns) : FracLess(columns[c], Get(containerHeight))

(***************************************************************************)
(* C25                                                                     *)
(***************************************************************************)
Failed(img) == img.complete /\ ~ img.src.ok

\* C25: an item whose image failed to load has the default height 250 after
\* every layout pass, and the failure of an image that was pending during
\* one or more layout passes triggers exactly one re-layout pass.
C25_FailureRelayoutsOnce ==
    [][ /\ LayoutPass =>
               \A i \in 1..Len(imgElems) :
                   Failed(imgElems[i]) => imgElems'[i].height = Some(FracInt(250))
        /\ \A i \in ItemIndexes :
               (ImageError(i) /\ imgElems[i].listeners # <<>>)
                   => layoutTimers' = layoutTimers + 1 ]_vars

\* The engine on a desktop window, with images that load and images that
\* fail.  Timers that are due fire: the event loop runs every pending
\* timeout.
DesktopWindows == { <<769, 700, 16>>, <<1280, 1000, 0>> }

MasonryFairInit ==
    /\ MasonryInit
    /\ <<innerWidth, containerWidth, paddingLeft>> \in DesktopWindows
    /\ \A i \in 1..Len(imgElems) : imgElems[i].src.h # 3 /\ imgElems[i].src.w # 1

MasonryFairNext ==
    \/ PageLayout
    \/ TimerLayout
    \/ \E window \in DesktopWindows : Resize(window)
    \/ ResizeLayout
    \/ \E i \in ItemIndexes : ImageAvailable(i)
    \/ \E i \in ItemIndexes : ImageLoad(i)
    \/ \E i \in ItemIndexes : ImageError(i)

\* a pending timer fires: among the steps of the engine these are the
\* TimerLayout steps and the ResizeLayout steps
TimerFires == layoutTimers > 0 /\ layoutTimers' = layoutTimers - 1
ResizeFires == resizeTimeout /\ resizeTimeout' = FALSE

MasonryFairSpec ==
    /\ MasonryFairInit
    /\ [][MasonryFairNext]_vars
    /\ WF_layoutTimers(TimerFires)
    /\ WF_resizeTimeout(ResizeFires)

(***************************************************************************)
(* C26                                                                     *)
(***************************************************************************)
AllSettled == \A i \in 1..Len(imgElems) : imgElems[i].complete

Quiet == layoutTimers = 0 /\ ~ resizeTimeout

\* C26: once every image has loaded or failed, no layout pass and no event
\* schedules a further re-layout, every re-layout uses up the timer that
\* started it, and the engine reaches a state with no pending re-layout
\* timer and stays there unless the window is resized.
C26_RelayoutsDrain ==
    /\ [][AllSettled => layoutTimers' <= layoutTimers]_vars
    /\ [][(AllSettled /\ TimerLayout) => layoutTimers' < layoutTimers]_vars
    /\ AllSettled ~> Quiet
    /\ [][(AllSettled /\ Quiet /\ innerWidth' = innerWidth /\ containerWidth' = containerWidth)
              => Quiet']_vars

\* every image has loaded or failed and two re-layouts are pending
C26_Witness ==
    /\ Len(imgElems) > 0
    /\ AllSettled
    /\ layoutTimers = 2

(***************************************************************************)
(* Properties of the album page's lightbox.                                *)
(***************************************************************************)
\* C27: whenever the lightbox is open, after a click on a grid item and
\* after every next or previous step, it shows the photo displayed in the
\* grid at position currentIndex.
C27_LightboxFollowsGrid ==
    lightboxActive => lightboxImg = Some(pageShown[currentIndex + 1].id)

(***************************************************************************)
(* gallery.js: the home gallery renders pages of a filter.  A render waits *)
(* for its fetch while the visitor goes on clicking and scrolling.         *)
(***************************************************************************)
GalleryFilters == {"all", "nature", "city"}

\* the visitor stops scrolling for more once the grid holds this many items
MaxGrid == 50

\* an album of n photos, the odd ones tagged "nature", the even ones "city",
\* the later ones newer
GalleryAlbum(n) ==
    SiteAlbum("sea", NoValue, NoValue,
              [k \in 1..n |-> SitePhoto("sea", k, k,
                                  Some({IF k % 2 = 1 THEN "nature" ELSE "city"}))])

GallerySizes == {2, 21, 41, 45}
GalleryDocs == { <<GalleryAlbum(n)>> : n \in GallerySizes }

ImageIdsOf(images) == [k \in 1..Len(images) |-> images[k].id]

GalleryFrame == UNCHANGED <<siteData, timelineItems, albumShown, pipeVars, pageVars,
                            sessVars, masonryVars, analyzerVars>>

\* renderGallery up to its await: nothing if a render is loading, else the
\* fetch of the page is started
startRender(filter, page, append) ==
    IF loading
    THEN UNCHANGED <<loading, pendingRender>>
    ELSE /\ loading' = TRUE
         /\ pendingRender' = Some([filter |-> filter, page |-> page, append |-> append])

\* applyFilter: a filter button is clicked or filterChange is dispatched
ApplyFilter(filter) ==
    /\ galleryPage' = 1
    /\ currentFilter' = filter
    /\ hasMoreImages' = TRUE
    /\ startRender(filter, 1, FALSE)
    /\ UNCHANGED <<galleryGrid, galleryImages>>
    /\ GalleryFrame

\* checkScroll with the viewport within the threshold of the bottom
CheckScroll ==
    /\ ~ loading
    /\ hasMoreImages
    /\ Len(galleryGrid) < MaxGrid
    /\ galleryPage' = galleryPage + 1
    /\ startRender(currentFilter, galleryPage + 1, TRUE)
    /\ UNCHANGED <<currentFilter, hasMoreImages, galleryGrid, galleryImages>>
    /\ GalleryFrame

\* renderGallery from its await on: fetchImages returns, the grid is
\* replaced or extended and loading is cleared.  The layout passes the
\* render schedules are PageLayout of the masonry engine.
RenderDone ==
    /\ Has(pendingRender)
    /\ LET render == Get(pendingRender)
           result == fetchImages(siteData, render.filter, render.page)
       IN  /\ galleryImages' = result
           /\ hasMoreImages' = result.hasMore
           /\ galleryGrid' = (IF render.append THEN galleryGrid ELSE <<>>)
                                \o ImageIdsOf(result.images)
    /\ loading' = FALSE
    /\ pendingRender' = NoValue
    /\ UNCHANGED <<currentFilter, galleryPage>>
    /\ GalleryFrame

\* DOMContentLoaded: the script has called renderGallery(), which waits for
\* the first page of "all"
GalleryInit ==
    /\ siteData \in GalleryDocs
    /\ galleryImages = [images |-> <<>>, hasMore |-> TRUE]
    /\ timelineItems = <<>>
    /\ albumShown = NoValue
    /\ currentFilter = "all"
    /\ galleryPage = 1
    /\ loading = TRUE
    /\ hasMoreImages = TRUE
    /\ galleryGrid = <<>>
    /\ pendingRender = Some([filter |-> "all", page |-> 1, append |-> FALSE])
    /\ NoPipeline
    /\ NoMasonry

GalleryNext ==
    \/ \E filter \in GalleryFilters : ApplyFilter(filter)
    \/ CheckScroll
    \/ RenderDone

GallerySpec == GalleryInit /\ [][GalleryNext]_vars

\* pages 1..page of a filter, one after the other
RECURSIVE PagesUpTo(_, _, _)
PagesUpTo(data, filter, page) ==
    IF page = 0 THEN <<>>
    ELSE PagesUpTo(data, filter, page - 1)
             \o ImageIdsOf(fetchImages(data, filter, page).images)

\* C28: whenever no render is loading, the grid shows pages 1 to page of the
\* filter applied last, each once and in order: the first page alone after
\* a filter was applied, whether or not an earlier render was loading then.
C28_GridShowsCurrentFilter ==
    ~ loading => galleryGrid = PagesUpTo(siteData, currentFilter, galleryPage)

(***************************************************************************)
(* image-analyzer.js: main analyses a directory and cleans up.  The        *)
(* analyses do their work in I/O callbacks; whatever only waits for        *)
(* promises that are settled already runs before the next callback.        *)
(***************************************************************************)
MaxAnalyses == 4
ConcurrencyOptions == 1..3
Outcomes == {"result", "error"}

\* a promise of the semaphore: the initial Promise.resolve(), or the chain
\* on the analyzeImage of a file
ResolvedPromise == [file |-> 0]
AnalysisPromise(file) == [file |-> file]
Null == [file |-> -1]

Settled(p) == p = ResolvedPromise \/ p.file \notin running

\* Promise.race(semaphore) and Promise.all(semaphore) are settled
raceSettled == \E k \in 1..Len(semaphore) : Settled(semaphore[k])
allSettled == \A k \in 1..Len(semaphore) : Settled(semaphore[k])

\* semaphore.findIndex(p => p !== null), counted from 1
completedIndex == CHOOSE k \in 1..Len(semaphore) :
                      /\ semaphore[k] # Null
                      /\ \A j \in 1..(k - 1) : semaphore[j] = Null

AnalyzerFrame == UNCHANGED <<pipeVars, pageVars, rsPhase, rsLoaded, rsAlbums, rsAlbum,
                             browserVars>>

\* one turn of the loop: the race is over, analyzeImage of the next file is
\* started and its promise put into the slot found
StartAnalysis ==
    /\ analyzerPhase = "loop"
    /\ nextFile <= Len(analyzedFiles)
    /\ raceSettled
    /\ semaphore' = [semaphore EXCEPT ![completedIndex] = AnalysisPromise(analyzedFiles[nextFile])]
    /\ running' = running \cup {analyzedFiles[nextFile]}
    /\ nextFile' = nextFile + 1
    /\ UNCHANGED <<maxConcurrent, analyzedFiles, results, analyzerPhase, reported>>
    /\ AnalyzerFrame

\* the loop is over: await Promise.all(semaphore)
LoopDone ==
    /\ analyzerPhase = "loop"
    /\ nextFile > Len(analyzedFiles)
    /\ analyzerPhase' = "waiting"
    /\ UNCHANGED <<maxConcurrent, analyzedFiles, nextFile, semaphore, running, results, reported>>
    /\ AnalyzerFrame

\* analyzeDirectory waits for promises that are settled already
analyzerCanRun ==
    \/ analyzerPhase = "loop" /\ (nextFile > Len(analyzedFiles) \/ raceSettled)
    \/ analyzerPhase = "waiting" /\ allSettled
    \/ analyzerPhase = "returned"

\* analyzeImage of a file settles, and its then or catch handler pushes the
\* entry of the file
FinishAnalysis(file, outcome) ==
    /\ file \in running
    /\ ~ analyzerCanRun
    /\ running' = running \ {file}
    /\ results' = Append(results, [file |-> file, outcome |-> outcome])
    /\ UNCHANGED <<maxConcurrent, analyzedFiles, nextFile, semaphore, analyzerPhase, reported>>
    /\ AnalyzerFrame

\* Promise.all(semaphore) is over: analyzeDirectory returns results and main
\* logs results.length
Return ==
    /\ analyzerPhase = "waiting"
    /\ allSettled
    /\ analyzerPhase' = "returned"
    /\ reported' = Some(Len(results))
    /\ UNCHANGED <<maxConcurrent, analyzedFiles, nextFile, semaphore, running, results>>
    /\ AnalyzerFrame

\* main's finally: analyzer.cleanup()
AnalyzerCleanup ==
    /\ analyzerPhase = "returned"
    /\ analyzerPhase' = "cleanup"
    /\ UNCHANGED <<maxConcurrent, analyzedFiles, nextFile, semaphore, running, results, reported>>
    /\ AnalyzerFrame

\* main has called analyzeDirectory on a directory of n image files, which
\* has read the directory and filled the semaphore
AnalyzerInit ==
    /\ maxConcurrent \in ConcurrencyOptions
    /\ \E n \in 0..MaxAnalyses : analyzedFiles = [k \in 1..n |-> k]
    /\ nextFile = 1
    /\ semaphore = [k \in 1..maxConcurrent |-> ResolvedPromise]
    /\ running = {}
    /\ results = <<>>
    /\ analyzerPhase = "loop"
    /\ reported = NoValue
    /\ docExists = FALSE
    /\ doc = EmptyDoc
    /\ fsDirs = {}
    /\ fsFiles = {}
    /\ now = 0
    /\ edits = 0
    /\ last = NoOp
    /\ pageImages = <<>>
    /\ pageShown = <<>>
    /\ NoLightbox
    /\ rsPhase = "idle"
    /\ rsLoaded = EmptyDoc
    /\ rsAlbums = EmptyDoc
    /\ rsAlbum = NoValue
    /\ NoBrowser

AnalyzerNext ==
    \/ StartAnalysis
    \/ LoopDone
    \/ \E file \in 1..MaxAnalyses, outcome \in Outcomes : FinishAnalysis(file, outcome)
    \/ Return
    \/ AnalyzerCleanup

AnalyzerSpec == AnalyzerInit /\ [][AnalyzerNext]_vars

\* C29: at every moment of analyzeDirectory at most maxConcurrent analyses
\* are in flight.
C29_AtMostMaxConcurrent ==
    Cardinality(running) <= maxConcurrent

\* C30: once analyzeDirectory has returned, and so when main cleans up, no
\* analysis is running and results holds exactly one entry for every image
\* file.
C30_ReturnsAfterAllSettled ==
    analyzerPhase \in {"returned", "cleanup"} =>
        /\ running = {}
        /\ Len(results) = Len(analyzedFiles)
        /\ \A k \in 1..Len(analyzedFiles) :
              Cardinality({ j \in 1..Len(results) : results[j].file = analyzedFiles[k] }) = 1

=============================================================================
